---- MODULE Spec2Model ----
(***************************************************************************)
(* The Inmapper Auth SDK session manager (class InmapperAuth) as a state   *)
(* machine: the in-memory session, the persisted store (localStorage), the *)
(* page URL, and the asynchronous public operations, each split at its     *)
(* awaits (the microtask after `await this.init()` and the validate round  *)
(* trip); the URLs the SDK and the login application read and build, as    *)
(* symbol sequences; and the code-entry screen of the login application.   *)
(***************************************************************************)
EXTENDS Naturals, FiniteSets, Sequences, TLC

\* ------------------------------------------------------------------ values

\* JavaScript null / undefined.
Null == "null"

\* Opaque bearer tokens, and a resource name.
Tokens == {"T1", "T2"}
Resources == {"billing"}

\* The token an earlier page lifetime may have left in the store.
StoredTokens == {"T1"}

\* The user record the Auth API holds for a token (distinct tokens are given
\* distinct users, the worst case for a cache that outlives its token).
UserOf(t) == IF t = "T1" THEN "U1" ELSE "U2"
Users == {UserOf(t) : t \in Tokens}

\* The call records one page keeps (a completed call's record is reused by
\* a later call).
MaxCalls == 2
Slots == 1..MaxCalls

\* How localStorage behaves for the page lifetime: "ok"; "down" (every
\* access throws, e.g. storage disabled); "quota" (setItem throws, getItem
\* and removeItem work).
StorageModes == {"ok", "down", "quota"}

\* -------------------------------------------------------------------- URLs

\* A URL or a query string is a sequence of symbols: the delimiters "?",
\* "&", "=", "#", and words (runs of other characters, kept whole).

\* The protected page and the login application.
PageUrl == "https://a.example/p"
LoginUrl == "https://login.example/login"

\* encodeURIComponent on the symbols in use, as <<raw, encoded>> pairs.
Escapes == {<<"?", "%3F">>, <<"&", "%26">>, <<"=", "%3D">>, <<"#", "%23">>,
            <<"/q", "%2Fq">>, <<"a+b", "a%2Bb">>,
            <<"https://a.example/p", "https%3A%2F%2Fa.example%2Fp">>,
            <<"https://b.example/p", "https%3A%2F%2Fb.example%2Fp">>}

EncodeSymbol(x) ==
  IF \E e \in Escapes : e[1] = x
  THEN (CHOOSE e \in Escapes : e[1] = x)[2] ELSE x

\* Percent-decoding of one symbol as URLSearchParams does it, "+" being a
\* space.
DecodeSymbol(x) ==
  IF \E e \in Escapes : e[2] = x
  THEN (CHOOSE e \in Escapes : e[2] = x)[1]
  ELSE IF x = "a+b" THEN "a b" ELSE x

RECURSIVE EncodeURIComponent(_)
EncodeURIComponent(s) ==
  IF s = <<>> THEN <<>>
  ELSE <<EncodeSymbol(Head(s))>> \o EncodeURIComponent(Tail(s))

RECURSIVE FormDecode(_)
FormDecode(s) ==
  IF s = <<>> THEN <<>>
  ELSE <<DecodeSymbol(Head(s))>> \o FormDecode(Tail(s))

\* The position of the first symbol of s that is in xs (0: none).
SymbolIndex(s, xs) ==
  IF \E i \in 1..Len(s) : s[i] \in xs
  THEN CHOOSE i \in 1..Len(s) :
         s[i] \in xs /\ \A j \in 1..(i - 1) : s[j] \notin xs
  ELSE 0

\* s cut at every symbol d.
RECURSIVE SplitOn(_, _)
SplitOn(s, d) ==
  LET i == SymbolIndex(s, {d})
  IN IF i = 0 THEN <<s>>
     ELSE <<SubSeq(s, 1, i - 1)>> \o SplitOn(SubSeq(s, i + 1, Len(s)), d)

\* The raw name=value pieces of a query string, empty pieces dropped.
QueryPieces(q) ==
  LET body == IF q # <<>> /\ Head(q) = "?" THEN Tail(q) ELSE q
  IN SelectSeq(SplitOn(body, "&"), LAMBDA p : p # <<>>)

\* One piece as URLSearchParams reads it: cut at the first "=", decoded.
ParsePair(piece) ==
  LET i == SymbolIndex(piece, {"="})
  IN IF i = 0 THEN [name |-> FormDecode(piece), value |-> <<>>]
     ELSE [name |-> FormDecode(SubSeq(piece, 1, i - 1)),
           value |-> FormDecode(SubSeq(piece, i + 1, Len(piece)))]

\* new URLSearchParams(q).get(name): the value of the first pair so named.
SearchGet(q, name) ==
  LET ps == QueryPieces(q)
      hits == {i \in 1..Len(ps) : ParsePair(ps[i]).name = <<name>>}
  IN IF hits = {} THEN [found |-> FALSE, value |-> <<>>]
     ELSE [found |-> TRUE,
           value |-> ParsePair(ps[CHOOSE i \in hits :
                                    \A j \in hits : i <= j]).value]

\* A parameter value as the string the session holds: a one-word value is
\* that word, any longer value is some string that is no token in use.
ValueWord(v) == IF Len(v) = 1 THEN v[1] ELSE "composite"

\* _handleCallbackToken's tokenFromUrl when truthy, else Null.
UrlToken(q) ==
  LET g == SearchGet(q, "token")
  IN IF g.found /\ g.value # <<>> THEN ValueWord(g.value) ELSE Null

\* Where /[?&]token=[^&]+/ matches in s at position i.
TokenMatchAt(s, i) ==
  /\ s[i] \in {"?", "&"} /\ i + 3 <= Len(s)
  /\ s[i + 1] = "token" /\ s[i + 2] = "=" /\ s[i + 3] # "&"

\* s.replace(/[?&]token=[^&]+/, ''): the first match is cut out, up to the
\* next "&" or the end.
RemoveTokenParam(s) ==
  IF ~\E i \in 1..Len(s) : TokenMatchAt(s, i) THEN s
  ELSE LET i == CHOOSE i \in 1..Len(s) :
                  TokenMatchAt(s, i) /\ \A j \in 1..(i - 1) : ~TokenMatchAt(s, j)
           k == SymbolIndex(SubSeq(s, i + 3, Len(s)), {"&"})
           last == IF k = 0 THEN Len(s) ELSE i + k + 1
       IN SubSeq(s, 1, i - 1) \o SubSeq(s, last + 1, Len(s))

\* s.replace(/^&/, '?')
LeadingAmpToQuestion(s) ==
  IF s # <<>> /\ Head(s) = "&" THEN <<"?">> \o Tail(s) ELSE s

\* The query part of _handleCallbackToken's cleanUrl.
CleanSearch(q) == LeadingAmpToQuestion(RemoveTokenParam(q))

\* A URL as the browser loads it: the fragment is cut at the first "#",
\* the query starts at the first "?" before it.
UrlParts(u) ==
  LET h == SymbolIndex(u, {"#"})
      front == IF h = 0 THEN u ELSE SubSeq(u, 1, h - 1)
      q == SymbolIndex(front, {"?"})
  IN [page |-> IF q = 0 THEN front ELSE SubSeq(front, 1, q - 1),
      search |-> IF q = 0 THEN <<>> ELSE SubSeq(front, q, Len(front)),
      fragment |-> IF h = 0 THEN <<>> ELSE SubSeq(u, h, Len(u))]

\* login(): loginUrl + "?callback=" + encodeURIComponent(location.href).
LoginHref(pg, q) ==
  <<LoginUrl, "?", "callback", "=">> \o EncodeURIComponent(pg \o q)

\* redirectTo(url) with a token: the separator is chosen by
\* url.includes('?').
RedirectHref(url, t) ==
  LET separator == IF \E i \in 1..Len(url) : url[i] = "?" THEN "&" ELSE "?"
  IN url \o <<separator, "token", "=">> \o EncodeURIComponent(<<t>>)

\* The form-urlencoded serialisation of one symbol, a space becoming "+".
FormEncodeSymbol(x) == IF x = "a b" THEN "a+b" ELSE EncodeSymbol(x)

RECURSIVE FormEncode(_)
FormEncode(s) ==
  IF s = <<>> THEN <<>>
  ELSE <<FormEncodeSymbol(Head(s))>> \o FormEncode(Tail(s))

\* The parsed pairs of a query string, in order.
RECURSIVE ParsePairs(_)
ParsePairs(ps) ==
  IF ps = <<>> THEN <<>>
  ELSE <<ParsePair(Head(ps))>> \o ParsePairs(Tail(ps))

\* searchParams.set(name, v): the first pair so named takes the value and
\* the later ones go; without one the pair is appended.
SetPair(pairs, name, v) ==
  LET hits == {i \in 1..Len(pairs) : pairs[i].name = <<name>>}
  IN IF hits = {} THEN Append(pairs, [name |-> <<name>>, value |-> <<v>>])
     ELSE LET i == CHOOSE i \in hits : \A j \in hits : i <= j
          IN SubSeq(pairs, 1, i - 1)
               \o <<[name |-> <<name>>, value |-> <<v>>]>>
               \o SelectSeq(SubSeq(pairs, i + 1, Len(pairs)),
                            LAMBDA pr : pr.name # <<name>>)

\* The serialisation of the pairs, "&" between them.
RECURSIVE SerializePairs(_)
SerializePairs(pairs) ==
  IF pairs = <<>> THEN <<>>
  ELSE FormEncode(Head(pairs).name) \o <<"=">> \o FormEncode(Head(pairs).value)
         \o (IF Len(pairs) = 1 THEN <<>> ELSE <<"&">>)
         \o SerializePairs(Tail(pairs))

\* The callback URL sent back as it was received, without the token.
CallbackWithoutToken(u, t) == u

\* handleVerify's callback URL: new URL(u), searchParams.set('token', t),
\* toString().
WithTokenParam(u, t) ==
  LET parts == UrlParts(u)
      pairs == SetPair(ParsePairs(QueryPieces(parts.search)), "token", t)
  IN parts.page \o <<"?">> \o SerializePairs(pairs) \o parts.fragment

VARIABLES
  token,        \* this._token
  user,         \* this._user
  initialized,  \* this._initialized
  config,       \* this.config (the fields the session logic reads)
  storeToken,   \* localStorage[tokenKey]
  storeUser,    \* localStorage[userKey] (the user it deserialises to)
  storage,      \* the store's behaviour, one of StorageModes
  urlToken,     \* the `token` query parameter of window.location
  nav,          \* where window.location.href was set to (Null: still here)
  calls,        \* the asynchronous calls, one record per slot
  prev,         \* summary of the call that completed just before the
                \* latest call started (history)
  touched,      \* a synchronous operation ran since the latest call
                \* started (history)
  lastSet,      \* the token of a setToken() that no other operation has
                \* followed yet (history)
  adopted,      \* the token an explicit init() adopted from the URL over
                \* another token's stored user, no operation since (history)
  page,         \* window.location.origin + pathname, as symbols
  search,       \* window.location.search, as symbols
  href,         \* what window.location.href was set to (<<>>: nothing)
  callbackUrl,  \* authState.callbackUrl of the login application
  visit,        \* how many times the browser has loaded the protected page
  handoff,      \* the latest hand-over of a token through a URL (history)
  initRuns,     \* how often init() ran its interceptor and load (history)
  otp,          \* VerifyOTP: the six digit slots
  loading,      \* VerifyOTP: a verification is pending
  error,        \* VerifyOTP: an error message is shown
  verifying,    \* VerifyOTP: the code of the pending verify request
  entry,        \* VerifyOTP: the latest digit entry (history)
  route,        \* the login application's current route
  authState,    \* App: authState.email and authState.pendingVerification
  appStore,     \* the login application's localStorage (auth_token,
                \* auth_user)
  form,         \* the mounted Login or Register page: error and loading
  submitting,   \* the pending login or register request
  resendTimer,  \* VerifyOTP: seconds left before a resend is allowed
  canResend,    \* VerifyOTP: resend is allowed
  resending,    \* the pending resend request
  verifySent,   \* how many verify requests were sent (history)
  resends,      \* how many resend requests were sent (history)
  submitLog,    \* the login and register requests completed and how
                \* (history)
  lastVerify,   \* how the latest verify request ended (history)
  provider,     \* InmapperAuthProvider: its state and its startup effect
  singleton,    \* getAuth: the module's _instance and the calls made
  clipboard,    \* VerifyOTP: the clipboard reads pending, each with the
                \* slots its handler saw
  overlap       \* the code of a verify request sent while another was
                \* pending

\* The session manager of one page.
sdkVars == <<token, user, initialized, config, storeToken, storeUser, storage,
             urlToken, nav, calls, prev, touched, lastSet, adopted>>

\* The browser's location and what travels through URLs.
urlVars == <<page, search, href, callbackUrl, visit, handoff>>

\* The code-entry screen.
otpVars == <<otp, loading, error, verifying, entry>>

\* The rest of the login application.
appVars == <<route, authState, appStore, form, submitting, resendTimer,
             canResend, resending, verifySent, resends, submitLog, lastVerify>>

\* The singleton accessor and the asynchronous paste.
rest == <<singleton, clipboard, overlap>>

vars == <<sdkVars, urlVars, initRuns, otpVars, appVars, provider, rest>>

\* The session as one record, so that the helpers compose as in the code.
Session == [token |-> token, user |-> user, initialized |-> initialized,
            storeToken |-> storeToken, storeUser |-> storeUser,
            urlToken |-> urlToken, search |-> search]

\* ----------------------------------------------------------- configuration

\* DEFAULT_CONFIG merged with the caller's overrides: a hook is either
\* supplied (TRUE) or left null (FALSE).
Configs == [resourceId : Resources \cup {Null},
            autoRedirect : BOOLEAN,
            onAuthRequired : BOOLEAN,
            onAuthSuccess : BOOLEAN,
            onAuthError : BOOLEAN,
            onAccessDenied : BOOLEAN]

\* ------------------------------------------------------- private methods

\* _saveToStorage: setItem(token) if truthy, then setItem(user) if truthy;
\* the first setItem that throws abandons the rest (one try block).
SaveToStorage(s, mode) ==
  IF mode # "ok" THEN s
  ELSE [s EXCEPT !.storeToken = IF s.token # Null THEN s.token ELSE @,
                 !.storeUser = IF s.user # Null THEN s.user ELSE @]

\* _loadFromStorage: both slots are read into memory; a throwing getItem
\* leaves the in-memory session as it was.
LoadFromStorage(s, mode) ==
  IF mode = "down" THEN s
  ELSE [s EXCEPT !.token = s.storeToken, !.user = s.storeUser]

\* Mutant of _clearAuth: the cached user goes, the token stays.
ClearAuthUserOnly(s, mode) ==
  LET m == [s EXCEPT !.user = Null]
  IN IF mode = "down" THEN m ELSE [m EXCEPT !.storeUser = Null]

\* _clearAuth: memory is cleared first, then both slots are removed.
ClearAuth(s, mode) ==
  LET m == [s EXCEPT !.token = Null, !.user = Null]
  IN IF mode = "down" THEN m
     ELSE [m EXCEPT !.storeToken = Null, !.storeUser = Null]

\* _handleCallbackToken: adopt the URL's token, persist, and replaceState
\* to the URL cleaned by the two regular expressions.
HandleCallbackToken(s, mode) ==
  IF s.urlToken # Null
  THEN [SaveToStorage([s EXCEPT !.token = s.urlToken], mode)
          EXCEPT !.urlToken = UrlToken(CleanSearch(s.search)),
                 !.search = CleanSearch(s.search)]
  ELSE s

\* Mutant of init(): the flag is never raised.
InitSessionNoFlag(s, mode) ==
  IF s.initialized THEN s
  ELSE LoadFromStorage(HandleCallbackToken(s, mode), mode)

\* init(): once per instance, the interceptor and then the store load.
InitSession(s, mode) ==
  IF s.initialized THEN s
  ELSE [LoadFromStorage(HandleCallbackToken(s, mode), mode)
          EXCEPT !.initialized = TRUE]

\* setToken(token)
SetTokenSession(s, mode, t) ==
  SaveToStorage([s EXCEPT !.token = t, !.user = Null], mode)

\* ---------------------------------------------------------------- results

NullResult == [kind |-> "null", user |-> Null, access |-> "absent"]
UserResult(u) == [kind |-> "user", user |-> u, access |-> "absent"]
AccessResult(u, a) == [kind |-> "withAccess", user |-> u, access |-> a]
BoolResult(b) == [kind |-> IF b THEN "true" ELSE "false", user |-> Null,
                  access |-> "absent"]

\* logout resolves to undefined; fetch resolves to the Response or rejects
\* with the error of the underlying fetch.
VoidResult == [kind |-> "void", user |-> Null, access |-> "absent"]
ResponseResult == [kind |-> "response", user |-> Null, access |-> "absent"]
RejectedResult == [kind |-> "rejected", user |-> Null, access |-> "absent"]

\* ------------------------------------------------------ validate responses

\* What comes back from POST /auth/validate: a transport or parse failure
\* (fetch or response.json() throws), or a parsed body with `valid`, `user`
\* and `hasResourceAccess` each present or absent.
NoResp == [kind |-> "none", valid |-> "absent", user |-> Null,
           access |-> "absent"]
ErrorResp == [kind |-> "error", valid |-> "absent", user |-> Null,
              access |-> "absent"]
Body(v, u, a) == [kind |-> "body", valid |-> v, user |-> u, access |-> a]

\* The responses to a request carrying token t and resource r.
Responses(t, r) ==
  {ErrorResp}
    \cup {Body("true", UserOf(t), a) :
            a \in IF r = Null THEN {"absent"} ELSE {"true", "false", "absent"}}
    \cup {Body("true", Null, "absent"), Body("false", Null, "absent"),
          Body("absent", Null, "absent")}

\* ------------------------------------------------------------------ getUser

\* Mutant of getUser's cache test: a cached user is returned whatever the
\* arguments.
CheckDecisionCacheFirst(s, force, res) ==
  IF s.token = Null THEN "null"
  ELSE IF s.user # Null THEN "cached"
  ELSE "fetch"

\* Mutant of getUser's cache test: the cached user is never used.
CheckDecisionNoCache(s, force, res) ==
  IF s.token = Null THEN "null" ELSE "fetch"

\* getUser after `await this.init()`: "null" (no token), "cached" (the cached
\* user is returned), or "fetch" (a validate request is sent).
CheckDecision(s, force, res) ==
  IF s.token = Null THEN "null"
  ELSE IF s.user # Null /\ ~force /\ res = Null THEN "cached"
  ELSE "fetch"

\* Mutant of getUser's response handling: a transport or parse failure is
\* taken for an invalid token.
HandleResponseErrorClears(s, cfg, mode, res, resp) ==
  IF resp.kind = "body" /\ resp.valid = "true" /\ resp.user # Null
  THEN [s |-> SaveToStorage([s EXCEPT !.user = resp.user], mode),
        result |-> IF res # Null THEN AccessResult(resp.user, resp.access)
                   ELSE UserResult(resp.user),
        effects |-> IF cfg.onAuthSuccess THEN {"onAuthSuccess"} ELSE {}]
  ELSE [s |-> ClearAuth(s, mode), result |-> NullResult,
        effects |-> IF resp.kind = "error" /\ cfg.onAuthError
                    THEN {"onAuthError"} ELSE {}]

\* getUser from `await response.json()` on: the session after the response,
\* the value getUser resolves to and the hooks it invoked.
HandleResponse(s, cfg, mode, res, resp) ==
  IF resp.kind = "error"
  THEN [s |-> s, result |-> NullResult,
        effects |-> IF cfg.onAuthError THEN {"onAuthError"} ELSE {}]
  ELSE IF resp.valid = "true" /\ resp.user # Null
  THEN [s |-> SaveToStorage([s EXCEPT !.user = resp.user], mode),
        result |-> IF res # Null THEN AccessResult(resp.user, resp.access)
                   ELSE UserResult(resp.user),
        effects |-> IF cfg.onAuthSuccess THEN {"onAuthSuccess"} ELSE {}]
  ELSE [s |-> ClearAuth(s, mode), result |-> NullResult, effects |-> {}]

\* ------------------------------------------------------ the callers' tails

\* protect's `options.resourceId || this.config.resourceId`.
EffectiveResource(cfg, optRes) == IF optRes # Null THEN optRes ELSE cfg.resourceId

\* _redirectToLogin, with login() as the navigation.
RedirectToLogin(cfg) ==
  IF cfg.onAuthRequired
  THEN IF ~cfg.autoRedirect THEN {"onAuthRequired"}
       ELSE {"onAuthRequired", "navLogin"}
  ELSE {"navLogin"}

\* _handleAccessDenied: the configured handler, else the built-in view.
HandleAccessDenied(cfg) ==
  IF cfg.onAccessDenied THEN {"onAccessDenied"} ELSE {"denialView"}

\* Mutant of protect: a denied user is sent to login like an unauthenticated
\* one.
ProtectTailDeniedToLogin(cfg, r) ==
  IF r.kind = "null" \/ (r.kind = "withAccess" /\ r.access = "false")
  THEN [result |-> NullResult, effects |-> RedirectToLogin(cfg)]
  ELSE [result |-> UserResult(r.user), effects |-> {}]

\* protect after `await this.getUser(...)`, r being what getUser resolved to.
ProtectTail(cfg, r) ==
  IF r.kind = "null"
  THEN [result |-> NullResult, effects |-> RedirectToLogin(cfg)]
  ELSE IF r.kind = "withAccess" /\ r.access = "false"
  THEN [result |-> NullResult, effects |-> HandleAccessDenied(cfg)]
  ELSE [result |-> UserResult(r.user), effects |-> {}]

\* hasPermission: `result?.hasResourceAccess === true`.
HasPermissionTail(cfg, r) ==
  [result |-> BoolResult(r.kind = "withAccess" /\ r.access = "true"),
   effects |-> {}]

\* isAuthenticated: `!!user`.
IsAuthenticatedTail(cfg, r) ==
  [result |-> BoolResult(r.kind # "null"), effects |-> {}]

\* What the public operation op makes of getUser's value r.
CallerTail(op, cfg, r) ==
  CASE op = "protect" -> ProtectTail(cfg, r)
    [] op = "hasPermission" -> HasPermissionTail(cfg, r)
    [] op = "isAuthenticated" -> IsAuthenticatedTail(cfg, r)
    [] OTHER -> [result |-> r, effects |-> {}]

\* ------------------------------------------------------------------- calls

NoPrev == [op |-> "none", res |-> Null, sent |-> FALSE, valid |-> "absent",
           cached |-> FALSE, ret |-> "null"]

\* One asynchronous call: the public operation, the getUser arguments it
\* uses, where it stands, the request it sent, the response it got, what
\* getUser resolved to (got), what the operation resolved to (result), and
\* the hooks, views and navigations it caused (effects). History: the
\* session getUser saw when it resumed (hadToken, hadUser), the setToken
\* that immediately preceded the call (afterSet), and the token init()
\* adopted from the URL over another token's stored user, when the call is
\* the first one since (adopted), and whether init() had run when the
\* operation first read this._token (sawInit). For logout, redirect is its
\* argument.
IdleCall == [op |-> "none", force |-> FALSE, res |-> Null, pc |-> "idle",
             reqToken |-> Null, reqRes |-> Null, resp |-> NoResp,
             got |-> NullResult, result |-> NullResult, effects |-> {},
             hadToken |-> Null, hadUser |-> Null, afterSet |-> Null,
             adopted |-> Null, redirect |-> FALSE, sawInit |-> FALSE]

\* What is remembered of a completed call.
Summary(c) == [op |-> c.op, res |-> c.res, sent |-> c.reqToken # Null,
               valid |-> c.resp.valid,
               cached |-> c.hadToken # Null /\ c.hadUser # Null,
               ret |-> c.result.kind]

InFlight == {c \in Slots : calls[c].pc \in {"check", "wait", "revoke", "net"}}
FreeSlots == Slots \ InFlight

\* The public asynchronous operations and the getUser arguments each uses.
CallKinds(cfg) ==
  {[op |-> "getUser", force |-> f, res |-> r] :
      f \in BOOLEAN, r \in Resources \cup {Null}}
    \cup {[op |-> "protect", force |-> FALSE, res |-> EffectiveResource(cfg, o)] :
            o \in Resources \cup {Null}}
    \cup {[op |-> "hasPermission", force |-> TRUE, res |-> r] : r \in Resources}
    \cup {[op |-> "isAuthenticated", force |-> FALSE, res |-> Null]}

SetSession(s) ==
  /\ token' = s.token
  /\ user' = s.user
  /\ initialized' = s.initialized
  /\ storeToken' = s.storeToken
  /\ storeUser' = s.storeUser
  /\ urlToken' = s.urlToken
  /\ search' = s.search

\* The token an init() run now would adopt from the URL while the store
\* holds a user cached under another token (Null: no such adoption).
StaleAdoption ==
  IF ~initialized /\ urlToken # Null /\ storeUser # Null
       /\ storeUser # UserOf(urlToken)
  THEN urlToken ELSE Null

\* The call record rec completed: getUser resolved to g having invoked the
\* hooks fx, and the operation's own tail ran.
Completed(rec, g, fx) ==
  LET t == CallerTail(rec.op, config, g)
  IN [rec EXCEPT !.pc = "done", !.got = g, !.result = t.result,
                 !.effects = fx \cup t.effects]

\* login(): window.location.href = loginUrl?callback=...
NavAfter(rec) == IF "navLogin" \in rec.effects THEN "login" ELSE nav

\* The URL login() navigates to, built from the location as it then is.
HrefAfter(rec) ==
  IF "navLogin" \in rec.effects THEN LoginHref(page, search) ELSE href

\* The count of interceptor-and-load runs after an init() on a session
\* whose flag is `done`.
MaxInitRuns == 2
InitRunsAfter(done) ==
  IF done \/ initRuns >= MaxInitRuns THEN initRuns ELSE initRuns + 1

\* What no step of the session manager touches.
elsewhere == <<page, callbackUrl, visit, handoff, otpVars, appVars, provider, rest>>

\* init(), called by the page itself.
InitCall ==
  /\ nav = Null
  /\ ~initialized
  /\ SetSession(InitSession(Session, storage))
  /\ adopted' = StaleAdoption
  /\ lastSet' = Null
  /\ touched' = TRUE
  /\ initRuns' = InitRunsAfter(initialized)
  /\ UNCHANGED <<config, storage, nav, calls, prev, href, elsewhere>>

\* A public operation is called: its synchronous part runs init() and the
\* call suspends at `await this.init()`.
StartCall(c, k, limit, track) ==
  /\ nav = Null
  /\ Cardinality(InFlight) < limit
  /\ c \in FreeSlots /\ \A d \in FreeSlots : c <= d
  /\ SetSession(InitSession(Session, storage))
  /\ calls' = [calls EXCEPT ![c] =
       [IdleCall EXCEPT !.op = k.op, !.force = k.force, !.res = k.res,
                        !.pc = "check",
                        !.afterSet = IF InFlight = {} THEN lastSet ELSE Null,
                        !.adopted = IF initialized THEN adopted
                                    ELSE StaleAdoption]]
  /\ prev' = IF track /\ calls[c].pc = "done" /\ InFlight = {} /\ ~touched
             THEN Summary(calls[c]) ELSE NoPrev
  /\ touched' = FALSE
  /\ lastSet' = Null
  /\ adopted' = Null
  /\ initRuns' = InitRunsAfter(initialized)
  /\ UNCHANGED <<config, storage, nav, href, elsewhere>>

\* getUser resumes after `await this.init()`: no token, the cached user, or
\* the validate request leaves with the token held at this moment.
CheckStep(c) ==
  /\ nav = Null
  /\ calls[c].pc = "check"
  /\ LET d == CheckDecision(Session, calls[c].force, calls[c].res)
         seen == [calls[c] EXCEPT !.hadToken = token, !.hadUser = user,
                                  !.sawInit = initialized]
         rec == CASE d = "fetch" ->
                       [seen EXCEPT !.pc = "wait", !.reqToken = token,
                                    !.reqRes = seen.res]
                  [] d = "cached" -> Completed(seen, UserResult(user), {})
                  [] OTHER -> Completed(seen, NullResult, {})
     IN /\ calls' = [calls EXCEPT ![c] = rec]
        /\ nav' = NavAfter(rec)
        /\ href' = HrefAfter(rec)
  /\ UNCHANGED <<token, user, initialized, config, storeToken, storeUser,
                 storage, urlToken, search, prev, touched, lastSet, adopted,
                 initRuns, elsewhere>>

\* The validate round trip ends: the response (or the failure) is applied
\* to the session as it is now, and the caller's tail runs.
ResponseStep(c, resp) ==
  /\ nav = Null
  /\ calls[c].pc = "wait"
  /\ resp \in Responses(calls[c].reqToken, calls[c].reqRes)
  /\ LET h == HandleResponse(Session, config, storage, calls[c].res, resp)
         rec == Completed([calls[c] EXCEPT !.resp = resp], h.result, h.effects)
     IN /\ SetSession(h.s)
        /\ calls' = [calls EXCEPT ![c] = rec]
        /\ nav' = NavAfter(rec)
        /\ href' = HrefAfter(rec)
  /\ UNCHANGED <<config, storage, prev, touched, lastSet, adopted, initRuns,
                 elsewhere>>

\* setToken(t), synchronous; it does not run init().
SetToken(t) ==
  /\ nav = Null
  /\ SetSession(SetTokenSession(Session, storage, t))
  /\ lastSet' = t
  /\ touched' = TRUE
  /\ adopted' = Null
  /\ UNCHANGED <<config, storage, nav, calls, prev, href, initRuns,
                 elsewhere>>

\* ------------------------------------------- logout, fetch and redirectTo

\* How a request that carries no body of interest ends: answered, or failed
\* in transport.
Outcomes == {"ok", "error"}
AnsweredResp == [kind |-> "answered", valid |-> "absent", user |-> Null,
                 access |-> "absent"]
OutcomeResp(o) == IF o = "error" THEN ErrorResp ELSE AnsweredResp

\* Mutant of logout: a failed revoke request keeps the local session.
AfterRevokeKeepOnError(s, mode, o) ==
  IF o = "error" THEN s ELSE ClearAuth(s, mode)

\* logout once the revoke request has settled as o, or was skipped: the
\* catch swallows the failure and _clearAuth runs.
AfterRevoke(s, mode, o) == ClearAuth(s, mode)

\* logout's `if (redirect) this.login()`.
LogoutTail(redirect) == IF redirect THEN {"navLogin"} ELSE {}

\* logout's record when it completes with the revoke request settled as o.
LoggedOut(rec, o) ==
  [rec EXCEPT !.pc = "done", !.result = VoidResult,
              !.resp = IF o = "skipped" THEN NoResp ELSE OutcomeResp(o),
              !.effects = LogoutTail(rec.redirect)]

\* logout(redirect) is called: it does not run init(); with a token the
\* revoke request leaves and the call suspends, without one the call runs
\* to its end at once.
LogoutStart(c, redirect, limit) ==
  /\ nav = Null
  /\ Cardinality(InFlight) < limit
  /\ c \in FreeSlots /\ \A d \in FreeSlots : c <= d
  /\ LET rec == [IdleCall EXCEPT !.op = "logout", !.redirect = redirect,
                                 !.hadToken = token, !.hadUser = user,
                                 !.sawInit = initialized]
     IN IF token # Null
        THEN /\ calls' = [calls EXCEPT ![c] =
                           [rec EXCEPT !.pc = "revoke", !.reqToken = token]]
             /\ UNCHANGED <<token, user, initialized, storeToken, storeUser,
                            urlToken, search, nav, href>>
        ELSE /\ SetSession(AfterRevoke(Session, storage, "skipped"))
             /\ calls' = [calls EXCEPT ![c] = LoggedOut(rec, "skipped")]
             /\ nav' = NavAfter(LoggedOut(rec, "skipped"))
             /\ href' = HrefAfter(LoggedOut(rec, "skipped"))
  /\ touched' = TRUE
  /\ lastSet' = Null
  /\ adopted' = Null
  /\ UNCHANGED <<config, storage, prev, initRuns, elsewhere>>

\* The revoke request settles: the session is cleared as it is now, then
\* login() if redirect.
LogoutFinish(c, o) ==
  /\ nav = Null
  /\ calls[c].pc = "revoke"
  /\ o \in Outcomes
  /\ SetSession(AfterRevoke(Session, storage, o))
  /\ calls' = [calls EXCEPT ![c] = LoggedOut(calls[c], o)]
  /\ nav' = NavAfter(LoggedOut(calls[c], o))
  /\ href' = HrefAfter(LoggedOut(calls[c], o))
  /\ UNCHANGED <<config, storage, prev, touched, lastSet, adopted, initRuns,
                 elsewhere>>

\* fetch(url, options) is called: it does not run init(); the request
\* leaves with `Bearer ${this._token}` as the token is now.
FetchStart(c, limit) ==
  /\ nav = Null
  /\ Cardinality(InFlight) < limit
  /\ c \in FreeSlots /\ \A d \in FreeSlots : c <= d
  /\ calls' = [calls EXCEPT ![c] =
       [IdleCall EXCEPT !.op = "fetch", !.pc = "net", !.reqToken = token,
                        !.hadToken = token, !.hadUser = user,
                        !.sawInit = initialized]]
  /\ touched' = TRUE
  /\ lastSet' = Null
  /\ adopted' = Null
  /\ UNCHANGED <<token, user, initialized, config, storeToken, storeUser,
                 storage, urlToken, search, nav, href, prev, initRuns,
                 elsewhere>>

\* The request of fetch settles: its promise is the one fetch returns, so a
\* transport failure rejects it.
FetchFinish(c, o) ==
  /\ nav = Null
  /\ calls[c].pc = "net"
  /\ o \in Outcomes
  /\ calls' = [calls EXCEPT ![c] =
       [calls[c] EXCEPT !.pc = "done", !.resp = OutcomeResp(o),
                        !.result = IF o = "error" THEN RejectedResult
                                   ELSE ResponseResult]]
  /\ UNCHANGED <<token, user, initialized, config, storeToken, storeUser,
                 storage, urlToken, search, nav, href, prev, touched, lastSet,
                 adopted, initRuns, elsewhere>>

\* The URLs a page hands its token to: a plain page, one with a query, one
\* with a fragment (hash routing).
HandoffTargets ==
  {<<"https://b.example/p">> \o q \o f :
     q \in {<<>>, <<"?", "foo", "=", "1">>},
     f \in {<<>>, <<"#", "sec">>}}

\* redirectTo(url), synchronous; it does not run init().
RedirectTo(url) ==
  /\ nav = Null
  /\ href' = IF token # Null THEN RedirectHref(url, token) ELSE url
  /\ nav' = "away"
  /\ handoff' = [kind |-> "redirectTo", url |-> url, token |-> token,
                 sawInit |-> initialized]
  /\ UNCHANGED <<token, user, initialized, config, storeToken, storeUser,
                 storage, urlToken, search, calls, prev, touched, lastSet,
                 adopted, page, callbackUrl, visit, initRuns, otpVars, appVars, provider, rest>>

\* ------------------------------------------------- the login application

\* The six digit slots, indexed as in the code.
OtpLen == 6
OtpSlots == 0..(OtpLen - 1)
EmptyOtp == [i \in OtpSlots |-> ""]

\* No digit entered yet (history).
NoEntry == [how |-> "none", text |-> <<>>, filled |-> FALSE, verified |-> FALSE]

\* What can reach a slot or the clipboard: digits and other characters.
Digits == {"1", "2"}
Typed == Digits \cup {"", "x"}
MaxPaste == 7
SixDigits == <<"1", "2", "3", "4", "5", "6">>
DigitChars == Digits \cup {"3", "4", "5", "6"}
Ones(n) == [i \in 1..n |-> "1"]
PasteTexts ==
  {Ones(n) : n \in 0..MaxPaste}
    \cup {<<"x">> \o Ones(n) : n \in 0..(MaxPaste - 1)}
    \cup {SixDigits, <<"1", "2", "x", "3", "4", "x", "5", "6">>}

\* The e-mail addresses submitted, the routes of the application, the
\* seconds of the resend window, and the requests followed.
Emails == {"a@x", "b@x"}
Routes == {"login", "register", "verify", "success"}
ResendWindow == 60
MaxVerifies == 2
MaxResendCalls == 3
MaxSubmits == 2

\* App's initial authState (callbackUrl is kept in its own variable).
NoAuthState == [email |-> Null, pendingVerification |-> FALSE]

\* The Login or Register page as it mounts, no request pending, nothing
\* verified yet.
NoForm == [error |-> FALSE, loading |-> FALSE]
NoSubmit == [email |-> Null, live |-> FALSE]
NoVerify == [n |-> 0, result |-> "none", token |-> Null, live |-> FALSE]
EmptyStore == [token |-> Null, user |-> Null]

\* new URL(u) accepts u: it is absolute (with no base a relative reference
\* throws a TypeError).
AbsoluteUrl(u) ==
  u # <<>> /\ Head(u) \in {PageUrl, LoginUrl, "https://b.example/p"}

\* The e-mails whose login or register call has succeeded.
SucceededEmails(log) == {log[i].email : i \in {j \in 1..Len(log) : log[j].ok}}

\* otp.join(''): the filled slots in order.
RECURSIVE JoinFrom(_, _)
JoinFrom(o, i) ==
  IF i >= OtpLen THEN <<>>
  ELSE (IF o[i] = "" THEN <<>> ELSE <<o[i]>>) \o JoinFrom(o, i + 1)

Joined(o) == JoinFrom(o, 0)

\* newOtp.every(digit => digit)
AllFilled(o) == \A i \in OtpSlots : o[i] # ""

\* text.replace(/\D/g, '').slice(0, 6).split('')
PastedDigits(text) ==
  LET ds == SelectSeq(text, LAMBDA ch : ch \in DigitChars)
  IN SubSeq(ds, 1, IF Len(ds) < OtpLen THEN Len(ds) ELSE OtpLen)

\* The pasted digits written to the empty slots only.
PasteIntoEmptySlots(o, ds) ==
  [i \in OtpSlots |-> IF i < Len(ds) /\ o[i] = "" THEN ds[i + 1] ELSE o[i]]

\* The slots after the pasted digits were written from slot 0 on.
PasteInto(o, ds) == [i \in OtpSlots |-> IF i < Len(ds) THEN ds[i + 1] ELSE o[i]]

\* Every route shown as asked for.
LandingUnguarded(r, pending, store) == r

\* The route shown for r: /verify without a pending verification and
\* /success without a stored session both lead to /login.
Landing(r, pending, store) ==
  IF r = "verify" /\ ~pending THEN "login"
  ELSE IF r = "success" /\ (store.token = Null \/ store.user = Null) THEN "login"
  ELSE r

\* The page of route r mounts: the component state of the page left is
\* gone, and the state of the new one is its useState defaults.
Show(r) ==
  /\ route' = r
  /\ otp' = EmptyOtp
  /\ loading' = FALSE
  /\ error' = FALSE
  /\ entry' = NoEntry
  /\ resendTimer' = ResendWindow
  /\ canResend' = FALSE
  /\ form' = NoForm

\* The requests still pending when their page unmounts: they complete
\* later, their setState calls reaching no mounted component.
Unmounted ==
  /\ submitting' = [submitting EXCEPT !.live = FALSE]
  /\ resending' = IF resending = "live" THEN "stale" ELSE resending
  /\ UNCHANGED verifying

\* handleVerify(code) up to its await: nothing unless code has six
\* characters, else loading is set, the error cleared and the request sent.
HandleVerify(code) ==
  IF Len(code) # OtpLen THEN UNCHANGED <<loading, error, verifying, verifySent>>
  ELSE /\ loading' = TRUE
       /\ error' = FALSE
       /\ verifying' = code
       /\ verifySent' = verifySent + 1

\* The code-entry screen is shown and takes input: its inputs are disabled
\* while a verification is pending.
CodeEntry ==
  /\ nav = "loginApp" /\ route = "verify"
  /\ ~loading /\ verifying = <<>>
  /\ verifySent < MaxVerifies

\* What the handlers of the code-entry screen leave alone.
entryFrame == <<route, authState, appStore, form, submitting, resendTimer,
                canResend, resending, resends, submitLog, lastVerify,
                provider, rest, sdkVars, urlVars, initRuns>>

\* handleChange(index, value): a character arrives in a slot.
HandleChange(index, value) ==
  /\ CodeEntry
  /\ IF value # "" /\ value \notin Digits
     THEN UNCHANGED <<otp, loading, error, verifying, verifySent, entry>>
     ELSE LET newOtp == [otp EXCEPT ![index] = value]
              go == value # "" /\ index = OtpLen - 1 /\ AllFilled(newOtp)
          IN /\ otp' = newOtp
             /\ IF go THEN HandleVerify(Joined(newOtp))
                ELSE error' = FALSE /\ UNCHANGED <<loading, verifying, verifySent>>
             /\ entry' = [how |-> "type",
                          text |-> <<value>>,
                          filled |-> value # "" /\ AllFilled(newOtp),
                          verified |-> go]
  /\ UNCHANGED entryFrame

\* The digits of a pasted text are written from slot 0 on, and six of them
\* are verified.
PasteDigits(text, how) ==
  LET digits == PastedDigits(text)
      newOtp == PasteInto(otp, digits)
      go == Len(digits) = OtpLen
  IN /\ otp' = newOtp
     /\ IF go THEN HandleVerify(Joined(newOtp))
        ELSE UNCHANGED <<loading, error, verifying, verifySent>>
     /\ entry' = [how |-> how,
                  text |-> text,
                  filled |-> digits # <<>> /\ AllFilled(newOtp),
                  verified |-> go /\ Len(Joined(newOtp)) = OtpLen]

\* handlePaste(e): clipboard text arrives in any slot.
HandlePaste(text) ==
  /\ CodeEntry
  /\ PasteDigits(text, "paste")
  /\ UNCHANGED entryFrame

\* handleKeyDown(index, e) for Ctrl+V or Cmd+V: the default paste is
\* prevented and the clipboard is read instead.
HandleKeyDown(text) ==
  /\ CodeEntry
  /\ PasteDigits(text, "key")
  /\ UNCHANGED entryFrame

\* The form is submitted (the button is enabled once every slot is filled
\* and nothing is pending).
Submit ==
  /\ CodeEntry /\ AllFilled(otp)
  /\ HandleVerify(Joined(otp))
  /\ UNCHANGED <<otp, entry>>
  /\ UNCHANGED entryFrame

\* A failure that leaves the digits entered in their slots.
VerifyFailsKeepingDigits ==
  /\ nav = "loginApp" /\ verifying # <<>>
  /\ IF loading THEN error' = TRUE /\ loading' = FALSE
     ELSE UNCHANGED <<error, loading>>
  /\ verifying' = <<>>
  /\ lastVerify' = [n |-> lastVerify.n + 1, result |-> "fail",
                    token |-> Null, live |-> loading]
  /\ UNCHANGED <<otp, entry, route, authState, appStore, form, submitting,
                 resendTimer, canResend, resending, verifySent, resends,
                 submitLog, provider, rest, sdkVars, urlVars, initRuns>>

\* handleVerify's catch and finally: the verify request failed. The screen
\* that sent it is still mounted exactly when it shows loading.
VerifyFails ==
  /\ nav = "loginApp" /\ verifying # <<>>
  /\ IF loading THEN otp' = EmptyOtp /\ error' = TRUE /\ loading' = FALSE
     ELSE UNCHANGED <<otp, error, loading>>
  /\ verifying' = <<>>
  /\ lastVerify' = [n |-> lastVerify.n + 1, result |-> "fail",
                    token |-> Null, live |-> loading]
  /\ UNCHANGED <<entry, route, authState, appStore, form, submitting,
                 resendTimer, canResend, resending, verifySent, resends,
                 submitLog, provider, rest, sdkVars, urlVars, initRuns>>

\* handleVerify after a successful verify request that returned token t:
\* the session is stored; with a callback URL the browser is sent there with
\* the token (new URL throwing on a relative one, which the catch takes for
\* a failure), without one the success page is shown.
VerifySucceeds(t) ==
  /\ nav = "loginApp" /\ verifying # <<>>
  /\ appStore' = [token |-> t, user |-> UserOf(t)]
  /\ verifying' = <<>>
  /\ lastVerify' = [n |-> lastVerify.n + 1, result |-> "ok", token |-> t,
                    live |-> loading]
  /\ IF callbackUrl # <<>> /\ AbsoluteUrl(callbackUrl)
     THEN /\ href' = WithTokenParam(callbackUrl, t)
          /\ nav' = "away"
          /\ handoff' = [kind |-> "login", url |-> callbackUrl, token |-> t,
                         sawInit |-> FALSE]
          /\ loading' = FALSE
          /\ UNCHANGED <<otp, error, entry, route, resendTimer, canResend,
                         form, submitting, resending>>
     ELSE IF callbackUrl # <<>>
     THEN /\ IF loading THEN otp' = EmptyOtp /\ error' = TRUE
             ELSE UNCHANGED <<otp, error>>
          /\ loading' = FALSE
          /\ UNCHANGED <<href, nav, handoff, entry, route, resendTimer,
                         canResend, form, submitting, resending>>
     ELSE /\ IF route = "success"
             THEN UNCHANGED <<route, otp, loading, error, entry, resendTimer,
                              canResend, form, submitting, resending>>
             ELSE /\ Show("success")
                  /\ submitting' = [submitting EXCEPT !.live = FALSE]
                  /\ resending' = IF resending = "live" THEN "stale"
                                  ELSE resending
          /\ UNCHANGED <<href, nav, handoff>>
  /\ UNCHANGED <<token, user, initialized, config, storeToken, storeUser,
                 storage, urlToken, calls, prev, touched, lastSet, adopted,
                 page, search, callbackUrl, visit, initRuns, authState,
                 verifySent, resends, submitLog, provider, rest>>

\* The clipboard reads followed at a time, and what the clipboard holds.
MaxReads == 2
KeyTexts == {SixDigits, Ones(2)}

\* What the asynchronous paste and the second request leave alone.
keysFrame == <<route, authState, appStore, form, submitting, resendTimer,
               canResend, resending, resends, submitLog, singleton, provider,
               sdkVars, urlVars, initRuns>>

\* handleKeyDown(index, e) for Ctrl+V or Cmd+V, up to the promise: the
\* default paste is prevented and navigator.clipboard.readText() is
\* called; its callback keeps the slots of this render.
KeyDownPaste ==
  /\ CodeEntry
  /\ Len(clipboard) < MaxReads
  /\ clipboard' = Append(clipboard, otp)
  /\ UNCHANGED <<otpVars, overlap, lastVerify, verifySent, keysFrame>>

\* The i-th clipboard read resolves with text: the digits are written over
\* the slots captured at the key press, and six of them go to handleVerify,
\* which has no test of its own for a request already pending. The reads
\* of a screen that was left are not followed.
ClipboardRead(i, text) ==
  /\ nav = "loginApp" /\ route = "verify"
  /\ i \in DOMAIN clipboard
  /\ LET digits == PastedDigits(text)
         newOtp == PasteInto(clipboard[i], digits)
         go == Len(digits) = OtpLen
     IN /\ otp' = newOtp
        /\ IF ~go
           THEN UNCHANGED <<loading, error, verifying, verifySent, overlap>>
           ELSE IF verifying = <<>>
           THEN HandleVerify(Joined(newOtp)) /\ UNCHANGED overlap
           ELSE /\ overlap = <<>>
                /\ overlap' = Joined(newOtp)
                /\ loading' = TRUE
                /\ error' = FALSE
                /\ verifySent' = verifySent + 1
                /\ UNCHANGED verifying
        /\ entry' = [how |-> "key", text |-> text,
                     filled |-> digits # <<>> /\ AllFilled(newOtp),
                     verified |-> go]
  /\ clipboard' = [j \in 1..(Len(clipboard) - 1) |->
                     IF j < i THEN clipboard[j] ELSE clipboard[j + 1]]
  /\ UNCHANGED <<lastVerify, keysFrame>>

\* handleVerify's catch and finally for the request that settles last of
\* two (requests settle in any order and run the same handler, so the one
\* that settles first is the one held in verifying).
OverlapFails ==
  /\ nav = "loginApp" /\ overlap # <<>> /\ verifying = <<>>
  /\ IF route = "verify"
     THEN otp' = EmptyOtp /\ error' = TRUE /\ loading' = FALSE
     ELSE UNCHANGED <<otp, error, loading>>
  /\ overlap' = <<>>
  /\ lastVerify' = [n |-> lastVerify.n + 1, result |-> "fail",
                    token |-> Null, live |-> route = "verify"]
  /\ UNCHANGED <<verifying, entry, verifySent, clipboard, keysFrame>>

\* handleVerify after the success, with token t, of the request that
\* settles last of two.
OverlapSucceeds(t) ==
  /\ nav = "loginApp" /\ overlap # <<>> /\ verifying = <<>>
  /\ appStore' = [token |-> t, user |-> UserOf(t)]
  /\ overlap' = <<>>
  /\ lastVerify' = [n |-> lastVerify.n + 1, result |-> "ok", token |-> t,
                    live |-> route = "verify"]
  /\ IF callbackUrl # <<>> /\ AbsoluteUrl(callbackUrl)
     THEN /\ href' = WithTokenParam(callbackUrl, t)
          /\ nav' = "away"
          /\ handoff' = [kind |-> "login", url |-> callbackUrl, token |-> t,
                         sawInit |-> FALSE]
          /\ loading' = FALSE
          /\ UNCHANGED <<otp, error, entry, route, resendTimer, canResend,
                         form, submitting, resending>>
     ELSE IF callbackUrl # <<>>
     THEN /\ IF route = "verify"
             THEN otp' = EmptyOtp /\ error' = TRUE /\ loading' = FALSE
             ELSE UNCHANGED <<otp, error, loading>>
          /\ UNCHANGED <<href, nav, handoff, entry, route, resendTimer,
                         canResend, form, submitting, resending>>
     ELSE /\ IF route = "success"
             THEN UNCHANGED <<route, otp, loading, error, entry, resendTimer,
                              canResend, form, submitting, resending>>
             ELSE /\ Show("success")
                  /\ submitting' = [submitting EXCEPT !.live = FALSE]
                  /\ resending' = IF resending = "live" THEN "stale"
                                  ELSE resending
          /\ UNCHANGED <<href, nav, handoff>>
  /\ UNCHANGED <<token, user, initialized, config, storeToken, storeUser,
                 storage, urlToken, calls, prev, touched, lastSet, adopted,
                 page, search, callbackUrl, visit, initRuns, authState,
                 verifying, verifySent, resends, submitLog, provider,
                 singleton, clipboard>>

\* A countdown that allows resend with a second still to go.
CountdownEffectEarly ==
  /\ nav = "loginApp" /\ route = "verify"
  /\ resendTimer > 1 \/ ~canResend
  /\ IF resendTimer > 1
     THEN resendTimer' = resendTimer - 1 /\ UNCHANGED canResend
     ELSE canResend' = TRUE /\ UNCHANGED resendTimer
  /\ UNCHANGED <<otpVars, route, authState, appStore, form, submitting,
                 resending, verifySent, resends, submitLog, lastVerify,
                 provider, rest, sdkVars, urlVars, initRuns>>

\* The countdown effect: with seconds left a timeout takes one off, and at
\* zero resend is allowed.
CountdownEffect ==
  /\ nav = "loginApp" /\ route = "verify"
  /\ resendTimer > 0 \/ ~canResend
  /\ IF resendTimer > 0
     THEN resendTimer' = resendTimer - 1 /\ UNCHANGED canResend
     ELSE canResend' = TRUE /\ UNCHANGED resendTimer
  /\ UNCHANGED <<otpVars, route, authState, appStore, form, submitting,
                 resending, verifySent, resends, submitLog, lastVerify,
                 provider, rest, sdkVars, urlVars, initRuns>>

\* A resend that is sent whether or not it is allowed.
HandleResendAlways ==
  /\ nav = "loginApp" /\ route = "verify"
  /\ resends.asked < MaxResendCalls
  /\ resending = "none"
  /\ canResend' = FALSE
  /\ resendTimer' = ResendWindow
  /\ error' = FALSE
  /\ resending' = "live"
  /\ resends' = [asked |-> resends.asked + 1, sent |-> resends.sent + 1]
  /\ UNCHANGED <<otp, loading, verifying, entry, route, authState, appStore,
                 form, submitting, verifySent, submitLog, lastVerify, provider, rest,
                 sdkVars, urlVars, initRuns>>

\* handleResend() up to its await: nothing unless resend is allowed, else
\* the countdown restarts, the error is cleared and the request is sent.
HandleResend ==
  /\ nav = "loginApp" /\ route = "verify"
  /\ resends.asked < MaxResendCalls
  /\ IF ~canResend
     THEN /\ resends' = [resends EXCEPT !.asked = @ + 1]
          /\ UNCHANGED <<canResend, resendTimer, error, resending>>
     ELSE /\ resending = "none"
          /\ canResend' = FALSE
          /\ resendTimer' = ResendWindow
          /\ error' = FALSE
          /\ resending' = "live"
          /\ resends' = [asked |-> resends.asked + 1, sent |-> resends.sent + 1]
  /\ UNCHANGED <<otp, loading, verifying, entry, route, authState, appStore,
                 form, submitting, verifySent, submitLog, lastVerify, provider, rest,
                 sdkVars, urlVars, initRuns>>

\* A resend whose failure empties the slots as a failed verification does.
ResendDoneClearing(ok) ==
  /\ nav = "loginApp" /\ resending # "none"
  /\ resending' = "none"
  /\ error' = IF ~ok /\ resending = "live" THEN TRUE ELSE error
  /\ otp' = IF ~ok /\ resending = "live" THEN EmptyOtp ELSE otp
  /\ UNCHANGED <<loading, verifying, entry, route, authState, appStore,
                 form, submitting, resendTimer, canResend, verifySent, resends,
                 submitLog, lastVerify, provider, rest, sdkVars, urlVars, initRuns>>

\* handleResend after its await: the request succeeded (ok) or failed, and
\* a failure is shown on the screen that sent it.
ResendDone(ok) ==
  /\ nav = "loginApp" /\ resending # "none"
  /\ resending' = "none"
  /\ error' = IF ~ok /\ resending = "live" THEN TRUE ELSE error
  /\ UNCHANGED <<otp, loading, verifying, entry, route, authState, appStore,
                 form, submitting, resendTimer, canResend, verifySent, resends,
                 submitLog, lastVerify, provider, rest, sdkVars, urlVars, initRuns>>

\* Login.handleSubmit and Register.handleSubmit up to their await: the
\* error is cleared, loading set and the request sent for the e-mail typed.
SubmitStart(email) ==
  /\ nav = "loginApp" /\ route \in {"login", "register"}
  /\ ~form.loading /\ submitting.email = Null
  /\ Len(submitLog) < MaxSubmits
  /\ form' = [error |-> FALSE, loading |-> TRUE]
  /\ submitting' = [email |-> email, live |-> TRUE]
  /\ UNCHANGED <<otpVars, route, authState, appStore, resendTimer, canResend,
                 resending, verifySent, resends, submitLog, lastVerify,
                 provider, rest, sdkVars, urlVars, initRuns>>

\* handleSubmit after a successful call: the e-mail and the pending flag
\* are set and /verify is navigated to.
SubmitOk ==
  /\ nav = "loginApp" /\ submitting.email # Null
  /\ authState' = [email |-> submitting.email, pendingVerification |-> TRUE]
  /\ submitLog' = Append(submitLog, [email |-> submitting.email, ok |-> TRUE])
  /\ submitting' = NoSubmit
  /\ IF route = "verify"
     THEN UNCHANGED <<route, otp, loading, error, entry, resendTimer,
                      canResend, form, resending>>
     ELSE /\ Show("verify")
          /\ resending' = IF resending = "live" THEN "stale" ELSE resending
  /\ UNCHANGED <<verifying, appStore, verifySent, resends, lastVerify,
                 provider, rest, sdkVars, urlVars, initRuns>>

\* handleSubmit's catch and finally: the call failed, which the page that
\* sent it shows.
SubmitFail ==
  /\ nav = "loginApp" /\ submitting.email # Null
  /\ form' = IF submitting.live THEN [error |-> TRUE, loading |-> FALSE]
             ELSE form
  /\ submitLog' = Append(submitLog, [email |-> submitting.email, ok |-> FALSE])
  /\ submitting' = NoSubmit
  /\ UNCHANGED <<otpVars, route, authState, appStore, resendTimer, canResend,
                 resending, verifySent, resends, lastVerify, provider, rest, sdkVars,
                 urlVars, initRuns>>

\* The user moves to another route of the application, by a link or
\* through the history: App's state is kept, the page mounts afresh.
Navigate(r) ==
  /\ nav = "loginApp"
  /\ LET target == Landing(r, authState.pendingVerification, appStore)
     IN target # route /\ Show(target)
  /\ Unmounted
  /\ UNCHANGED <<authState, appStore, verifySent, resends, submitLog,
                 lastVerify, provider, rest, sdkVars, urlVars, initRuns>>

\* The change-email button of the code-entry screen: the pending flag is
\* reset and /login is navigated to.
ChangeEmail ==
  /\ nav = "loginApp" /\ route = "verify"
  /\ authState' = [authState EXCEPT !.pendingVerification = FALSE]
  /\ Show("login")
  /\ Unmounted
  /\ UNCHANGED <<appStore, verifySent, resends, submitLog, lastVerify,
                 provider, rest, sdkVars, urlVars, initRuns>>

\* App mounts, the login application having been navigated to: the
\* callback (or redirect) parameter of its URL is kept as callbackUrl, and
\* the e-mail form is shown.
LoginCapture ==
  /\ nav = "login"
  /\ LET q == UrlParts(href).search
         cb == SearchGet(q, "callback")
         rd == SearchGet(q, "redirect")
     IN callbackUrl' = IF cb.found /\ cb.value # <<>> THEN cb.value
                       ELSE IF rd.found /\ rd.value # <<>> THEN rd.value
                       ELSE <<>>
  /\ nav' = "loginApp"
  /\ Show("login")
  /\ authState' = NoAuthState
  /\ submitting' = NoSubmit
  /\ resending' = "none"
  /\ verifying' = <<>>
  /\ verifySent' = 0
  /\ resends' = [asked |-> 0, sent |-> 0]
  /\ submitLog' = <<>>
  /\ lastVerify' = NoVerify
  /\ UNCHANGED <<token, user, initialized, config, storeToken, storeUser,
                 storage, urlToken, calls, prev, touched, lastSet, adopted,
                 page, search, href, visit, handoff, initRuns, appStore,
                 provider, rest>>

\* ------------------------------------------------- InmapperAuthProvider

\* The provider as it mounts: useState(null), useState(true), useState(null),
\* its startup effect not yet run.
IdleProvider(protect) ==
  [token |-> Null, user |-> Null, loading |-> TRUE, protect |-> protect,
   pc |-> "start", from |-> "none", validating |-> Null, outcome |-> "none"]

\* What the validate request of the provider can come to: a response that
\* reports the token valid with its user, one that does not, and a
\* transport or parse failure.
ProviderOutcomes == {"valid", "invalid", "error"}

\* The startup effect up to its first await: a token in the URL is set and
\* stored and the URL replaced by the pathname; else a stored token is
\* taken; else, protecting, login() is called. No try block surrounds the
\* store calls here: a throwing setItem (after setTokenState) or getItem
\* rejects the effect's promise where it stands ("failed").
ProviderInit ==
  /\ nav = Null /\ provider.pc = "start"
  /\ LET tokenFromUrl == UrlToken(search)
     IN IF tokenFromUrl # Null /\ storage # "ok"
        THEN /\ provider' = [provider EXCEPT !.token = tokenFromUrl,
                                             !.pc = "failed",
                                             !.from = "url"]
             /\ UNCHANGED <<storeToken, search, urlToken, nav, href>>
        ELSE IF tokenFromUrl = Null /\ storage = "down"
        THEN /\ provider' = [provider EXCEPT !.pc = "failed"]
             /\ UNCHANGED <<storeToken, search, urlToken, nav, href>>
        ELSE IF tokenFromUrl # Null
        THEN /\ provider' = [provider EXCEPT !.token = tokenFromUrl,
                                             !.pc = "validating",
                                             !.from = "url",
                                             !.validating = tokenFromUrl]
             /\ storeToken' = tokenFromUrl
             /\ search' = <<>>
             /\ urlToken' = Null
             /\ UNCHANGED <<nav, href>>
        ELSE IF storeToken # Null
        THEN /\ provider' = [provider EXCEPT !.token = storeToken,
                                             !.pc = "validating",
                                             !.from = "store",
                                             !.validating = storeToken]
             /\ UNCHANGED <<storeToken, search, urlToken, nav, href>>
        ELSE /\ provider' = [provider EXCEPT !.loading = FALSE, !.pc = "done"]
             /\ nav' = IF provider.protect THEN "login" ELSE nav
             /\ href' = IF provider.protect THEN LoginHref(page, search) ELSE href
             /\ UNCHANGED <<storeToken, search, urlToken>>
  /\ UNCHANGED <<token, user, initialized, config, storeUser, storage, calls,
                 prev, touched, lastSet, adopted, page, callbackUrl, visit,
                 handoff, initRuns, otpVars, appVars, rest>>

\* The startup effect after validateToken: a valid token's user is set and
\* stored (a throwing setItem there is caught by validateToken, which then
\* returns null); without a user the token taken from the store is unset
\* and removed, the one taken from the URL is kept; protecting, login() is
\* called.
ProviderValidated(o) ==
  /\ nav = Null /\ provider.pc = "validating"
  /\ LET validUser == o = "valid" /\ storage = "ok"
         unset == ~validUser /\ provider.from = "store"
         away == ~validUser /\ provider.protect
     IN /\ provider' = [provider EXCEPT
                          !.user = IF o = "valid" THEN UserOf(provider.validating)
                                   ELSE @,
                          !.token = IF unset THEN Null ELSE @,
                          !.loading = FALSE,
                          !.pc = "done",
                          !.outcome = o]
        /\ storeUser' = IF validUser THEN UserOf(provider.validating)
                        ELSE storeUser
        /\ storeToken' = IF unset THEN Null ELSE storeToken
        /\ nav' = IF away THEN "login" ELSE nav
        /\ href' = IF away THEN LoginHref(page, search) ELSE href
  /\ UNCHANGED <<token, user, initialized, config, storage, urlToken, calls,
                 prev, touched, lastSet, adopted, page, search, callbackUrl,
                 visit, handoff, initRuns, otpVars, appVars, rest>>

\* ------------------------------------------------------------------ getAuth

\* How many getAuth calls are followed.
MaxGetAuth == 3

\* A getAuth that constructs an instance on every call.
GetAuthRebuilding(cfg) ==
  /\ singleton.asked < MaxGetAuth
  /\ singleton' = [instance |-> singleton.built + 1, config |-> cfg,
                   built |-> singleton.built + 1,
                   asked |-> singleton.asked + 1,
                   last |-> singleton.built + 1, arg |-> cfg]
  /\ UNCHANGED <<sdkVars, urlVars, initRuns, otpVars, appVars, provider,
                 clipboard, overlap>>

\* getAuth(config): _instance is constructed from config when there is
\* none (instance 0), and returned. Instances are numbered as constructed.
GetAuth(cfg) ==
  /\ singleton.asked < MaxGetAuth
  /\ singleton' =
       IF singleton.instance = 0
       THEN [instance |-> singleton.built + 1, config |-> cfg,
             built |-> singleton.built + 1, asked |-> singleton.asked + 1,
             last |-> singleton.built + 1, arg |-> cfg]
       ELSE [singleton EXCEPT !.asked = @ + 1, !.last = singleton.instance,
                              !.arg = cfg]
  /\ UNCHANGED <<sdkVars, urlVars, initRuns, otpVars, appVars, provider,
                 clipboard, overlap>>

\* ----------------------------------------------------------- specification

\* The constructor, with no call made yet.
FreshInstance ==
  /\ token = Null /\ user = Null /\ initialized = FALSE
  /\ calls = [c \in Slots |-> IdleCall]
  /\ prev = NoPrev
  /\ touched = FALSE
  /\ lastSet = Null
  /\ adopted = Null
  /\ initRuns = 0

\* The query string that carries just the token t (none: the empty one).
TokenOnly(t) == IF t = Null THEN <<>> ELSE <<"?", "token", "=", t>>

\* No hand-over recorded.
NoHandoff == [kind |-> "none", url |-> <<>>, token |-> Null, sawInit |-> FALSE]

\* The first load of the page, nothing navigated to yet.
NoTravel ==
  /\ href = <<>>
  /\ callbackUrl = <<>>
  /\ visit = 1
  /\ handoff = NoHandoff

\* The code-entry screen as it mounts.
OtpIdle ==
  /\ otp = EmptyOtp
  /\ loading = FALSE
  /\ error = FALSE
  /\ verifying = <<>>
  /\ entry = NoEntry

\* The login application not opened, and no provider mounted.
AppIdle ==
  /\ route = "login"
  /\ authState = NoAuthState
  /\ appStore = EmptyStore
  /\ form = NoForm
  /\ submitting = NoSubmit
  /\ resendTimer = ResendWindow
  /\ canResend = FALSE
  /\ resending = "none"
  /\ verifySent = 0
  /\ resends = [asked |-> 0, sent |-> 0]
  /\ submitLog = <<>>
  /\ lastVerify = NoVerify

ProviderIdle == provider = IdleProvider(FALSE)

\* getAuth not called yet, no clipboard read pending, no second request.
NoSingleton == [instance |-> 0, config |-> Null, built |-> 0, asked |-> 0,
                last |-> 0, arg |-> Null]
RestIdle ==
  /\ singleton = NoSingleton
  /\ clipboard = <<>>
  /\ overlap = <<>>

\* A fresh instance on a page whose store may hold an earlier session and
\* whose URL may carry a handed-off token, configured from cfgs, with a
\* store behaving as one of modes.
InitWith(cfgs, modes) ==
  /\ FreshInstance
  /\ nav = Null
  /\ config \in cfgs
  /\ storage \in modes
  /\ storeToken \in StoredTokens \cup {Null}
  /\ storeUser \in {UserOf(t) : t \in StoredTokens} \cup {Null}
  /\ urlToken \in Tokens \cup {Null}
  /\ page = <<PageUrl>>
  /\ search = TokenOnly(urlToken)
  /\ NoTravel
  /\ OtpIdle
  /\ AppIdle
  /\ ProviderIdle
  /\ RestIdle

\* DEFAULT_CONFIG with at most a default resourceId supplied.
DefaultConfigs == {cfg \in Configs :
                     /\ cfg.autoRedirect
                     /\ ~cfg.onAuthRequired /\ ~cfg.onAuthSuccess
                     /\ ~cfg.onAuthError /\ ~cfg.onAccessDenied}

\* Every configuration, over a working store.
Init == InitWith(Configs, {"ok"})

\* The default configurations, over a working store.
InitSeq == InitWith(DefaultConfigs, {"ok"})

\* The default configurations, over a store in any of its modes.
InitStorage == InitWith(DefaultConfigs, StorageModes)

\* The steps of the calls in flight and the synchronous operations.
Progress ==
  \/ \E c \in Slots : CheckStep(c)
  \/ \E c \in Slots : \E resp \in Responses(calls[c].reqToken, calls[c].reqRes) :
       ResponseStep(c, resp)
  \/ \E t \in Tokens : SetToken(t)
  \/ InitCall

\* Callers await each call before making the next one.
Next ==
  \/ \E c \in Slots : \E k \in CallKinds(config) : StartCall(c, k, 1, FALSE)
  \/ Progress

\* The same, remembering the call that completed before the latest one.
NextSeq ==
  \/ \E c \in Slots : \E k \in CallKinds(config) : StartCall(c, k, 1, TRUE)
  \/ Progress

Spec == Init /\ [][Next]_vars

SpecSeq == InitSeq /\ [][NextSeq]_vars

SpecStorage == InitStorage /\ [][Next]_vars

\* All public operations, awaited one at a time, over a store in any mode.
NextOps ==
  \/ Next
  \/ \E c \in Slots : \E redirect \in BOOLEAN : LogoutStart(c, redirect, 1)
  \/ \E c \in Slots : \E o \in Outcomes : LogoutFinish(c, o)
  \/ \E c \in Slots : FetchStart(c, 1)
  \/ \E c \in Slots : \E o \in Outcomes : FetchFinish(c, o)
  \/ \E url \in HandoffTargets : RedirectTo(url)

SpecOps == InitStorage /\ [][NextOps]_vars

\* Another tab of the same origin, seen through the store the tabs share:
\* its setToken(t) writes the token slot, its successful validation of t
\* writes both slots, its logout (or invalid token) removes both.
OtherTabSetsToken(t) ==
  /\ nav = Null
  /\ storeToken' = t
  /\ UNCHANGED <<token, user, initialized, config, storeUser, storage,
                 urlToken, nav, calls, prev, touched, lastSet, adopted,
                 urlVars, initRuns, otpVars, appVars, provider, rest>>

OtherTabValidates(t) ==
  /\ nav = Null
  /\ storeToken' = t
  /\ storeUser' = UserOf(t)
  /\ UNCHANGED <<token, user, initialized, config, storage, urlToken, nav,
                 calls, prev, touched, lastSet, adopted, urlVars, initRuns,
                 otpVars, appVars, provider, rest>>

OtherTabClears ==
  /\ nav = Null
  /\ storeToken' = Null
  /\ storeUser' = Null
  /\ UNCHANGED <<token, user, initialized, config, storage, urlToken, nav,
                 calls, prev, touched, lastSet, adopted, urlVars, initRuns,
                 otpVars, appVars, provider, rest>>

\* A public operation is called while earlier ones are still in flight,
\* each call record being used once.
StartRace(c, k) ==
  /\ calls[c].pc = "idle"
  /\ StartCall(c, k, MaxCalls, FALSE)

\* Overlapping calls on one instance, next to another tab on the same
\* store.
NextRace ==
  \/ \E c \in Slots : \E k \in CallKinds(config) : StartRace(c, k)
  \/ \E c \in Slots : CheckStep(c)
  \/ \E c \in Slots : \E resp \in Responses(calls[c].reqToken, calls[c].reqRes) :
       ResponseStep(c, resp)
  \/ InitCall
  \/ \E t \in Tokens : OtherTabSetsToken(t)
  \/ \E t \in Tokens : OtherTabValidates(t)
  \/ OtherTabClears

SpecRace == InitSeq /\ [][NextRace]_vars

\* The parameters a page URL is made of: plain ones, the token, and one
\* whose value is itself a path with a query.
QueryParams == {<<"foo", "=", "1">>, <<"bar", "=", "2">>,
                <<"token", "=", "T1">>, <<"token", "=", "T2">>,
                <<"next", "=", "/q", "?", "token", "=", "T2">>}

\* The parameters ps as a query string.
RECURSIVE JoinParams(_)
JoinParams(ps) ==
  IF ps = <<>> THEN <<>>
  ELSE IF Len(ps) = 1 THEN Head(ps)
  ELSE Head(ps) \o <<"&">> \o JoinParams(Tail(ps))

QueryOf(ps) == IF ps = <<>> THEN <<>> ELSE <<"?">> \o JoinParams(ps)

\* The query strings of up to MaxParams parameters.
MaxParams == 3
Searches ==
  {QueryOf(ps) : ps \in UNION {[1..n -> QueryParams] : n \in 0..MaxParams}}

\* A page loaded at any of these query strings, over a working store that
\* may hold an earlier session (its token possibly one that needs
\* escaping).
InitUrl ==
  /\ FreshInstance
  /\ nav = Null
  /\ config \in {cfg \in DefaultConfigs : cfg.resourceId = Null}
  /\ storage = "ok"
  /\ storeToken \in {"T1", "a+b", Null}
  /\ storeUser \in {"U1", Null}
  /\ page = <<PageUrl>>
  /\ search \in Searches
  /\ urlToken = UrlToken(search)
  /\ NoTravel
  /\ OtpIdle
  /\ AppIdle
  /\ ProviderIdle
  /\ RestIdle

\* The browser loads the URL navigated to: a new page and a new instance.
\* After redirectTo the store is the target origin's, whatever it holds;
\* coming back from the login application it is the store left behind.
MaxVisits == 2
Arrive ==
  /\ nav = "away"
  /\ visit < MaxVisits
  /\ token' = Null /\ user' = Null /\ initialized' = FALSE
  /\ nav' = Null
  /\ calls' = [c \in Slots |-> IdleCall]
  /\ prev' = NoPrev
  /\ touched' = FALSE
  /\ lastSet' = Null
  /\ adopted' = Null
  /\ initRuns' = 0
  /\ page' = UrlParts(href).page
  /\ search' = UrlParts(href).search
  /\ urlToken' = UrlToken(UrlParts(href).search)
  /\ storeToken' \in IF handoff.kind = "redirectTo"
                      THEN StoredTokens \cup {Null} ELSE {storeToken}
  /\ storeUser' \in IF handoff.kind = "redirectTo"
                     THEN {UserOf(t) : t \in StoredTokens} \cup {Null}
                     ELSE {storeUser}
  /\ href' = <<>>
  /\ visit' = visit + 1
  /\ UNCHANGED <<config, storage, callbackUrl, handoff, otpVars, appVars, provider, rest>>

\* The login application loaded in its own tab, nothing of the session
\* manager in play.
LoginAppLoaded ==
  /\ FreshInstance
  /\ nav = "loginApp"
  /\ config \in {cfg \in DefaultConfigs : cfg.resourceId = Null}
  /\ storage = "ok"
  /\ storeToken = Null /\ storeUser = Null /\ urlToken = Null
  /\ page = <<PageUrl>>
  /\ search = <<>>
  /\ href = <<>>
  /\ visit = 1
  /\ handoff = NoHandoff
  /\ OtpIdle
  /\ ProviderIdle
  /\ RestIdle

\* The code-entry screen as it mounts after the login call for email.
CodeSent(email) ==
  /\ route = "verify"
  /\ authState = [email |-> email, pendingVerification |-> TRUE]
  /\ appStore = EmptyStore
  /\ form = NoForm
  /\ submitting = NoSubmit
  /\ resendTimer = ResendWindow
  /\ canResend = FALSE
  /\ resending = "none"
  /\ verifySent = 0
  /\ resends = [asked |-> 0, sent |-> 0]
  /\ submitLog = <<[email |-> email, ok |-> TRUE]>>
  /\ lastVerify = NoVerify

\* The callback URLs the login application can be opened with: none, an
\* absolute one, a relative one.
Callbacks == {<<>>, <<PageUrl>>, <<"/dashboard">>}

\* The code-entry screen of the login application, reached with or
\* without a callback URL.
InitOtp ==
  /\ LoginAppLoaded
  /\ CodeSent("a@x")
  /\ callbackUrl \in Callbacks

NextOtp ==
  \/ \E index \in OtpSlots : \E value \in Typed : HandleChange(index, value)
  \/ \E text \in PasteTexts : HandlePaste(text)
  \/ \E text \in PasteTexts : HandleKeyDown(text)
  \/ Submit
  \/ VerifyFails
  \/ \E t \in Tokens : VerifySucceeds(t)

SpecOtp == InitOtp /\ [][NextOtp]_vars

\* The code-entry screen with its countdown and resend, a few digits typed.
NextResend ==
  \/ CountdownEffect
  \/ HandleResend
  \/ \E ok \in BOOLEAN : ResendDone(ok)
  \/ \E index \in {0, 1} : \E value \in {"1", ""} : HandleChange(index, value)

SpecResend == InitOtp /\ [][NextResend]_vars

\* The login application from its e-mail form on: submissions, the routes,
\* a pasted code and its verification.
InitEmail ==
  /\ LoginAppLoaded
  /\ AppIdle
  /\ callbackUrl \in Callbacks

NextEmail ==
  \/ \E email \in Emails : SubmitStart(email)
  \/ SubmitOk
  \/ SubmitFail
  \/ \E r \in Routes : Navigate(r)
  \/ ChangeEmail
  \/ HandlePaste(SixDigits)
  \/ VerifyFails
  \/ \E t \in Tokens : VerifySucceeds(t)

SpecEmail == InitEmail /\ [][NextEmail]_vars

\* A page under InmapperAuthProvider, protecting or not, loaded with any
\* query string over any stored session.
InitProvider ==
  /\ FreshInstance
  /\ nav = Null
  /\ config \in {cfg \in DefaultConfigs : cfg.resourceId = Null}
  /\ storage = "ok"
  /\ storeToken \in StoredTokens \cup {Null}
  /\ storeUser \in {UserOf(t) : t \in StoredTokens} \cup {Null}
  /\ page = <<PageUrl>>
  /\ search \in Searches
  /\ urlToken = UrlToken(search)
  /\ NoTravel
  /\ OtpIdle
  /\ AppIdle
  /\ provider \in {IdleProvider(protect) : protect \in BOOLEAN}
  /\ RestIdle

NextProvider ==
  \/ ProviderInit
  \/ \E o \in ProviderOutcomes : ProviderValidated(o)

SpecProvider == InitProvider /\ [][NextProvider]_vars

\* The same page over a store in any of its modes.
InitProviderStorage ==
  /\ FreshInstance
  /\ nav = Null
  /\ config \in {cfg \in DefaultConfigs : cfg.resourceId = Null}
  /\ storage \in StorageModes
  /\ storeToken \in StoredTokens \cup {Null}
  /\ storeUser \in {UserOf(t) : t \in StoredTokens} \cup {Null}
  /\ page = <<PageUrl>>
  /\ search \in Searches
  /\ urlToken = UrlToken(search)
  /\ NoTravel
  /\ OtpIdle
  /\ AppIdle
  /\ provider \in {IdleProvider(protect) : protect \in BOOLEAN}
  /\ RestIdle

SpecProviderStorage == InitProviderStorage /\ [][NextProvider]_vars

\* The protected page as first loaded: no token handed over yet, perhaps a
\* stale one in its URL or its store, perhaps another parameter.
LoopSearches ==
  {QueryOf(ps) :
     ps \in UNION {[1..n -> {<<"foo", "=", "1">>, <<"token", "=", "T2">>}] :
                     n \in 0..2}}

InitLoop ==
  /\ FreshInstance
  /\ nav = Null
  /\ config \in DefaultConfigs
  /\ storage = "ok"
  /\ storeToken \in StoredTokens \cup {Null}
  /\ storeUser \in {UserOf(t) : t \in StoredTokens} \cup {Null}
  /\ page = <<PageUrl>>
  /\ search \in LoopSearches
  /\ urlToken = UrlToken(search)
  /\ NoTravel
  /\ OtpIdle
  /\ AppIdle
  /\ ProviderIdle
  /\ RestIdle

\* protect() on the page, the login application, and the way back.
NextLoop ==
  \/ \E c \in Slots : \E k \in CallKinds(config) :
       k.op = "protect" /\ StartCall(c, k, 1, FALSE)
  \/ \E c \in Slots : CheckStep(c)
  \/ \E c \in Slots : \E resp \in Responses(calls[c].reqToken, calls[c].reqRes) :
       ResponseStep(c, resp)
  \/ LoginCapture
  \/ \E email \in {"a@x"} : SubmitStart(email)
  \/ SubmitOk
  \/ SubmitFail
  \/ HandlePaste(SixDigits)
  \/ VerifyFails
  \/ \E t \in Tokens : VerifySucceeds(t)
  \/ Arrive

SpecLoop == InitLoop /\ [][NextLoop]_vars

\* init() on the page, the hand-over to another site, and its arrival.
NextUrl ==
  \/ InitCall
  \/ \E url \in HandoffTargets : RedirectTo(url)
  \/ Arrive

SpecUrl == InitUrl /\ [][NextUrl]_vars

\* A page that only calls getAuth, with any configuration each time.
InitSingleton ==
  /\ InitWith({cfg \in DefaultConfigs : cfg.resourceId = Null}, {"ok"})
  /\ storeToken = Null /\ storeUser = Null /\ urlToken = Null

NextSingleton == \E cfg \in Configs : GetAuth(cfg)

SpecSingleton == InitSingleton /\ [][NextSingleton]_vars

\* A store left by an earlier run of the page: empty, a token alone, or a
\* token with its own user; no token in the URL.
InitOverlap ==
  /\ InitSeq
  /\ urlToken = Null
  /\ storeUser # Null => storeToken # Null /\ storeUser = UserOf(storeToken)

\* logout() called while earlier calls are still in flight, each call
\* record being used once.
LogoutRace(c, redirect) ==
  /\ calls[c].pc = "idle"
  /\ LogoutStart(c, redirect, MaxCalls)

\* getUser(forceRefresh) and hasPermission(resourceId).
OverlapKinds ==
  {k \in CallKinds(config) :
     \/ k.op = "getUser" /\ k.res = Null
     \/ k.op = "hasPermission"}

\* Overlapping calls on one instance in one tab: getUser, hasPermission,
\* logout and setToken in any order.
NextOverlap ==
  \/ \E c \in Slots : \E k \in OverlapKinds : StartRace(c, k)
  \/ \E c \in Slots : CheckStep(c)
  \/ \E c \in Slots : \E resp \in Responses(calls[c].reqToken, calls[c].reqRes) :
       ResponseStep(c, resp)
  \/ \E c \in Slots : \E redirect \in BOOLEAN : LogoutRace(c, redirect)
  \/ \E c \in Slots : \E o \in Outcomes : LogoutFinish(c, o)
  \/ \E t \in Tokens : SetToken(t)

SpecOverlap == InitOverlap /\ [][NextOverlap]_vars

\* The code-entry screen with its asynchronous paste: a few digits typed,
\* a code pasted, Ctrl+V or Cmd+V pressed, and the requests settling.
NextKeys ==
  \/ \E index \in {0, 1} : HandleChange(index, "1")
  \/ HandlePaste(SixDigits)
  \/ KeyDownPaste
  \/ \E i \in 1..MaxReads : \E text \in KeyTexts : ClipboardRead(i, text)
  \/ VerifyFails
  \/ \E t \in Tokens : VerifySucceeds(t)
  \/ OverlapFails
  \/ \E t \in Tokens : OverlapSucceeds(t)

SpecKeys == InitOtp /\ [][NextKeys]_vars

\* ------------------------------------------------------------------ claims

\* The call in slot c has just received its validate response.
Responded(c) == calls[c].pc = "wait" /\ calls'[c].pc = "done"

\* The call in slot c used getUser with forceRefresh false and no resourceId.
PlainGetUser(c) == ~calls[c].force /\ calls[c].res = Null

\* C1: when init() adopts a token X from the URL while the store holds a
\* user cached under another token, that user is not the cached user for X,
\* and the next getUser() (no forceRefresh, no resourceId) sends a validate
\* request for X.
C1_TokenChangeInvalidatesCachedUser ==
  /\ adopted # Null => user = Null
  /\ \A c \in Slots :
       (calls[c].adopted # Null /\ ~touched) =>
         /\ calls[c].pc = "check" => user = Null
         /\ (calls[c].op = "getUser" /\ PlainGetUser(c)
               /\ calls[c].pc \in {"wait", "done"})
              => calls[c].reqToken = calls[c].adopted

\* C2: getUser() called right after setToken(T) returns a user only if the
\* server validated T in that call, and null if the server reported T
\* invalid, whatever the store held before and also when setToken(T) came
\* before the first init().
C2_GetUserAfterSetToken ==
  \A c \in Slots :
    (calls[c].op = "getUser" /\ PlainGetUser(c) /\ calls[c].afterSet # Null
       /\ ~touched /\ calls[c].pc = "done") =>
      /\ calls[c].result.kind # "null" =>
           /\ calls[c].reqToken = calls[c].afterSet
           /\ calls[c].resp.valid = "true"
           /\ calls[c].resp.user = calls[c].result.user
      /\ (calls[c].resp.kind = "body" /\ calls[c].resp.valid = "false") =>
           calls[c].result.kind = "null"

\* C3: when the validate request of getUser (any arguments) fails at
\* transport or parse level, the token, the cached user and both persisted
\* slots are as before, onAuthError is invoked exactly if configured, and
\* getUser resolves to null.
C3_TransportFailureKeepsSession ==
  [][\A c \in Slots :
       (Responded(c) /\ calls'[c].resp.kind = "error") =>
         /\ token' = token /\ user' = user
         /\ storeToken' = storeToken /\ storeUser' = storeUser
         /\ calls'[c].got = NullResult
         /\ ("onAuthError" \in calls'[c].effects) <=> config.onAuthError]_vars

C3_Witness ==
  \E c \in Slots :
    /\ calls[c].pc = "done" /\ calls[c].resp.kind = "error"
    /\ calls[c].hadUser # Null /\ token # Null /\ user # Null
    /\ storeToken = token /\ storeUser = user
    /\ "onAuthError" \in calls[c].effects

\* C4: getUser clears the session only when the response says valid: false;
\* a parsed body without `valid`, or valid: true without a user, clears
\* nothing.
C4_OnlyExplicitInvalidClears ==
  [][\A c \in Slots :
       (Responded(c) /\ (token' # token \/ storeToken' # storeToken
                           \/ (user # Null /\ user' = Null)
                           \/ (storeUser # Null /\ storeUser' = Null)))
         => calls'[c].resp.valid = "false"]_vars

\* C5: when validate answers valid: false, getUser nulls the token and the
\* cached user, removes both persisted slots and resolves to null; the call
\* made next sends no request and resolves to null (false for
\* isAuthenticated).
C5_InvalidTokenClearsSession ==
  [][/\ \A c \in Slots :
          (Responded(c) /\ calls'[c].resp.kind = "body"
             /\ calls'[c].resp.valid = "false") =>
            /\ token' = Null /\ user' = Null
            /\ storeToken' = Null /\ storeUser' = Null
            /\ calls'[c].got = NullResult
     /\ \A c \in Slots :
          (prev'.valid = "false" /\ ~touched' /\ calls'[c].op # "none") =>
            /\ calls'[c].pc # "wait"
            /\ calls'[c].reqToken = Null
            /\ calls'[c].pc = "done" =>
                 /\ calls'[c].got = NullResult
                 /\ calls'[c].result.kind \in {"null", "false"}]_vars

C5_Witness ==
  \E c \in Slots :
    /\ prev.valid = "false" /\ prev.sent /\ ~touched
    /\ calls[c].pc = "done" /\ calls[c].op \in {"getUser", "isAuthenticated"}
    /\ calls[c].reqToken = Null
    /\ calls[c].result.kind \in {"null", "false"}
    /\ storeToken = Null /\ storeUser = Null

\* C6: when protect() runs with an effective resource and validation
\* returns a valid user with hasResourceAccess false, protect resolves to
\* null, runs exactly one of the onAccessDenied handler (if configured) and
\* the built-in denial view (otherwise), does not navigate to login and
\* leaves the token in place.
C6_DeniedIsNotUnauthenticated ==
  [][\A c \in Slots :
       (Responded(c) /\ calls'[c].op = "protect" /\ calls'[c].res # Null
          /\ calls'[c].resp.valid = "true" /\ calls'[c].resp.user # Null
          /\ calls'[c].resp.access = "false") =>
         /\ calls'[c].result = NullResult
         /\ calls'[c].effects \cap {"onAccessDenied", "denialView"}
              = IF config.onAccessDenied THEN {"onAccessDenied"}
                ELSE {"denialView"}
         /\ calls'[c].effects \cap {"navLogin", "onAuthRequired"} = {}
         /\ nav' = Null
         /\ token' = token]_vars

C6_Witness ==
  \E c \in Slots :
    /\ calls[c].pc = "done" /\ calls[c].op = "protect"
    /\ calls[c].resp.valid = "true" /\ calls[c].resp.access = "false"
    /\ calls[c].got.kind = "withAccess"
    /\ calls[c].result = NullResult
    /\ "denialView" \in calls[c].effects
    /\ token # Null /\ nav = Null

\* C7: when getUser yields no result inside protect(), onAuthRequired is
\* called if configured, and the browser then navigates to login unless
\* autoRedirect is false, with or without an onAuthRequired hook; protect
\* resolves to null.
C7_AutoRedirectOffNeverNavigates ==
  \A c \in Slots :
    (calls[c].pc = "done" /\ calls[c].op = "protect"
       /\ calls[c].got = NullResult) =>
      /\ calls[c].result = NullResult
      /\ ("onAuthRequired" \in calls[c].effects) <=> config.onAuthRequired
      /\ ("navLogin" \in calls[c].effects) <=> config.autoRedirect
      /\ (nav = "login") <=> config.autoRedirect

\* C8: with a token present, every hasPermission(r) sends its own validate
\* request carrying the token and resource r, whatever is cached (so two
\* consecutive calls send two requests), and resolves to true only when its
\* own response has hasResourceAccess true.
C8_HasPermissionAlwaysValidates ==
  \A c \in Slots :
    (calls[c].op = "hasPermission" /\ calls[c].pc \in {"wait", "done"}) =>
      /\ calls[c].hadToken # Null =>
           /\ calls[c].reqToken = calls[c].hadToken
           /\ calls[c].reqRes = calls[c].res /\ calls[c].reqRes \in Resources
      /\ calls[c].result.kind = "true" =>
           /\ calls[c].resp.valid = "true" /\ calls[c].resp.user # Null
           /\ calls[c].resp.access = "true"
      /\ (prev.op = "hasPermission" /\ prev.sent /\ prev.ret = "true"
            /\ ~touched) => calls[c].reqToken # Null

C8_Witness ==
  \E c \in Slots :
    /\ prev.op = "hasPermission" /\ prev.sent /\ prev.ret = "true"
    /\ prev.cached /\ ~touched
    /\ calls[c].op = "hasPermission" /\ calls[c].pc = "done"
    /\ calls[c].hadUser # Null /\ calls[c].reqToken # Null
    /\ calls[c].result.kind = "true"

\* C9: getUser with forceRefresh false and no resourceId sends no request
\* and resolves to the cached user when a token and a cached user are
\* present; with no token it resolves to null with no request; in every
\* other case it sends one validate request, for the token it holds.
C9_CachedUnlessForcedOrScoped ==
  \A c \in Slots :
    calls[c].pc \in {"wait", "done"} =>
      /\ calls[c].hadToken = Null =>
           /\ calls[c].pc = "done" /\ calls[c].reqToken = Null
           /\ calls[c].got = NullResult
      /\ (calls[c].hadToken # Null /\ calls[c].hadUser # Null
            /\ PlainGetUser(c)) =>
           /\ calls[c].pc = "done" /\ calls[c].reqToken = Null
           /\ calls[c].got = UserResult(calls[c].hadUser)
      /\ (calls[c].hadToken # Null
            /\ (calls[c].hadUser = Null \/ ~PlainGetUser(c))) =>
           calls[c].reqToken = calls[c].hadToken

C9_Witness ==
  \E c \in Slots :
    /\ calls[c].op = "getUser" /\ PlainGetUser(c) /\ calls[c].pc = "done"
    /\ calls[c].hadToken # Null /\ calls[c].hadUser # Null
    /\ calls[c].reqToken = Null
    /\ calls[c].result = UserResult(calls[c].hadUser)

\* Two protect() calls in sequence, both resolving to the user, the first
\* one finding the session cached.
ProtectTwice(c) ==
  /\ prev.op = "protect" /\ prev.cached /\ prev.ret = "user" /\ ~touched
  /\ calls[c].op = "protect" /\ calls[c].pc = "done"
  /\ calls[c].result.kind = "user"

\* C10 as claimed: two protect() calls in sequence on a valid cached
\* session send at most one validate request in total, for every
\* configuration.
C10_ProtectTwiceAnyConfig ==
  \A c \in Slots :
    ProtectTwice(c) => ~(prev.sent /\ calls[c].reqToken # Null)

\* C10 amended: two protect() calls in sequence on a valid cached session
\* send at most one validate request in total when no resourceId is in
\* effect (neither options.resourceId nor a configured default).
C10_ProtectTwiceNoResource ==
  \A c \in Slots :
    (ProtectTwice(c) /\ prev.res = Null /\ calls[c].res = Null) =>
      ~(prev.sent /\ calls[c].reqToken # Null)

C10_Witness ==
  \E c \in Slots :
    /\ ProtectTwice(c) /\ prev.res = Null /\ calls[c].res = Null
    /\ ~prev.sent /\ calls[c].reqToken = Null
    /\ calls[c].hadUser # Null /\ calls[c].result.user = calls[c].hadUser

\* The call in slot c has just completed as a logout.
LogoutCompletes(c) ==
  /\ calls'[c].op = "logout" /\ calls'[c].pc = "done"
  /\ calls'[c] # calls[c]

\* C11: logout(redirect) sends the revoke request only when a token is
\* present; whether that request succeeds, fails or is skipped, logout then
\* nulls the token and the cached user and removes both persisted slots
\* (when the store can be reached), and with that navigates to login
\* exactly when redirect is true; it resolves, never rejects.
C11_LogoutAlwaysClears ==
  [][\A c \in Slots :
       /\ (calls'[c].op = "logout" /\ calls'[c].pc = "revoke") =>
            /\ calls'[c].reqToken # Null
            /\ calls'[c].reqToken = calls'[c].hadToken
       /\ LogoutCompletes(c) =>
            /\ (calls'[c].reqToken # Null) <=> (calls'[c].hadToken # Null)
            /\ token' = Null /\ user' = Null
            /\ storage # "down" => (storeToken' = Null /\ storeUser' = Null)
            /\ calls'[c].result = VoidResult
            /\ IF calls'[c].redirect
               THEN nav' = "login" /\ href' = LoginHref(page, search)
               ELSE nav' = Null /\ href' = href]_vars

C11_Witness ==
  \E c \in Slots :
    /\ calls[c].op = "logout" /\ calls[c].pc = "done" /\ calls[c].redirect
    /\ calls[c].hadToken # Null /\ calls[c].hadUser # Null
    /\ calls[c].resp = ErrorResp
    /\ token = Null /\ user = Null /\ storeToken = Null /\ storeUser = Null
    /\ nav = "login"


\* init() has just run its interceptor and load.
InitRuns == ~initialized /\ initialized'

\* The raw parameters of q without the first one named token.
RECURSIVE DropTokenParam(_)
DropTokenParam(ps) ==
  IF ps = <<>> THEN <<>>
  ELSE IF Len(Head(ps)) >= 2 /\ Head(ps)[1] = "token" /\ Head(ps)[2] = "="
  THEN Tail(ps)
  ELSE <<Head(ps)>> \o DropTokenParam(Tail(ps))

\* The query q with the token parameter and its separator removed and
\* every other parameter kept, in order.
WithoutTokenParam(q) == QueryOf(DropTokenParam(QueryPieces(q)))

\* C12: when the page URL carries token=X, init() leaves the in-memory
\* token and the persisted token slot equal to X and rewrites the visible
\* URL, without navigating, to the same path and the same query less the
\* token parameter and its separator, every other parameter kept in order,
\* wherever the token parameter stands.
C12_UrlTokenAdoptedAndStripped ==
  [][(InitRuns /\ urlToken # Null) =>
       /\ token' = urlToken /\ storeToken' = urlToken
       /\ page' = page /\ nav' = Null /\ href' = href
       /\ search' = WithoutTokenParam(search)]_vars

\* The path and query a URL names.
PathAndQuery(u) == UrlParts(u).page \o UrlParts(u).search

\* C17: redirectTo(url) on a page holding token X navigates to url with
\* token=<encoded X> appended after "&" if url has a query string and after
\* "?" otherwise, such that init() on the target page adopts exactly X and
\* restores the visible path and query to those of url; with no token it
\* navigates to url unchanged.
C17_HandoffRoundTrip ==
  [][/\ (nav = Null /\ nav' = "away" /\ handoff'.kind = "redirectTo") =>
          href' = IF token = Null THEN handoff'.url
                  ELSE handoff'.url
                         \o <<IF UrlParts(handoff'.url).search # <<>>
                              THEN "&" ELSE "?", "token", "=">>
                         \o EncodeURIComponent(<<token>>)
     /\ (InitRuns /\ handoff.kind = "redirectTo" /\ visit > 1
           /\ handoff.token # Null) =>
          /\ token' = handoff.token
          /\ page' \o search' = PathAndQuery(handoff.url)]_vars


\* C13: on one instance the callback interceptor and the store load run at
\* most once in the page lifetime, and before any validate request is
\* sent, however the public operations started before the first one
\* completed interleave.
C13_InitOnceBeforeValidate ==
  /\ initRuns <= 1
  /\ \A c \in Slots :
       /\ calls[c].pc # "idle" => (initialized /\ initRuns = 1)
       /\ calls[c].reqToken # Null => calls[c].sawInit

C13_Witness ==
  /\ initRuns = 1
  /\ calls[1].op = "protect" /\ calls[1].pc = "wait"
  /\ calls[2].op = "getUser" /\ calls[2].pc = "wait"
  /\ calls[1].sawInit /\ calls[2].sawInit


\* The call in slot c received a validate response that says valid, with a
\* user.
ValidatedInCall(c) ==
  /\ calls[c].reqToken # Null
  /\ calls[c].resp.kind = "body" /\ calls[c].resp.valid = "true"
  /\ calls[c].resp.user # Null

\* C19: with another tab writing and clearing the shared store at any
\* moment, hasPermission(r) resolves to true, and protect with a resource
\* resolves to a user, only on a validate response received inside that
\* same call (for r, granting access for hasPermission, not refusing it for
\* protect); neither is answered from the cached or the persisted user.
C19_AccessOnlyFromOwnResponse ==
  \A c \in Slots :
    calls[c].pc = "done" =>
      /\ (calls[c].op = "hasPermission" /\ calls[c].result.kind = "true") =>
           /\ ValidatedInCall(c)
           /\ calls[c].reqRes = calls[c].res
           /\ calls[c].resp.access = "true"
      /\ (calls[c].op = "protect" /\ calls[c].res # Null
            /\ calls[c].result.kind = "user") =>
           /\ ValidatedInCall(c)
           /\ calls[c].reqRes = calls[c].res
           /\ calls[c].resp.access # "false"
           /\ calls[c].result.user = calls[c].resp.user

C19_Witness ==
  /\ calls[1].op = "hasPermission" /\ calls[1].pc = "done"
  /\ calls[1].result.kind = "true" /\ calls[1].hadUser # Null
  /\ calls[2].op = "protect" /\ calls[2].pc = "done" /\ calls[2].res # Null
  /\ calls[2].result.kind = "user" /\ calls[2].hadUser # Null
  /\ storeToken = Null /\ storeUser = Null


\* C14: every public operation that uses the session (protect,
\* isAuthenticated, getUser, hasPermission, logout, fetch, redirectTo) has
\* init() run before it reads or acts on the token.
C14_InitBeforeTokenUse ==
  /\ \A c \in Slots :
       (calls[c].op # "none" /\ calls[c].pc # "check") => calls[c].sawInit
  /\ handoff.kind = "redirectTo" => handoff.sawInit

\* C15: when the store fails (any of get, set, remove), the in-memory
\* session stays authoritative: a token adopted from the URL during init()
\* is the in-memory token after init()'s store load, also when persisting
\* it failed.
C15_UrlTokenSurvivesStoreFailure ==
  [][(InitRuns /\ urlToken # Null) => token' = urlToken]_vars

\* C16: no public session operation (getUser, isAuthenticated, protect,
\* hasPermission, logout, fetch) rejects or throws to its caller because of
\* a network or storage failure.
C16_NoOperationRejects ==
  \A c \in Slots :
    calls[c].pc = "done" => calls[c].result.kind # "rejected"


\* The protect() calls made on the page the login application sent the
\* browser back to.
BackFromLogin == visit > 1 /\ handoff.kind = "login" /\ nav \in {Null, "login"}

C20_SixthDigitAutoVerifies ==
  (entry.how # "none" /\ entry.filled) => entry.verified


\* A step in which the text was pasted on the code-entry screen, through
\* the paste event or the keyboard.
PasteStep(text) ==
  /\ nav = "loginApp" /\ route = "verify" /\ verifying = <<>>
  /\ entry'.how \in {"paste", "key"}
  /\ entry'.text = text
  /\ entry' # entry \/ otp' # otp \/ verifySent' # verifySent

VerifyFailed == lastVerify'.n = lastVerify.n + 1 /\ lastVerify'.result = "fail"
VerifySucceeded == lastVerify'.n = lastVerify.n + 1 /\ lastVerify'.result = "ok"

\* C22 as stated: when the verify call fails the six slots are emptied, an
\* error is shown, loading is reset, the code-entry screen is shown for
\* the same e-mail, and the store has not been written.
C22_VerifyFailureResets ==
  [][VerifyFailed =>
       /\ otp' = EmptyOtp /\ error' /\ ~loading'
       /\ route' = "verify"
       /\ authState' = authState /\ authState'.pendingVerification
       /\ appStore' = appStore]_vars

\* C22 amended: a failed verify call never writes the store or changes the
\* pending e-mail; when the code-entry screen that sent it is still shown
\* the slots are emptied, the error shown and loading reset on that screen,
\* and when the user has left it meanwhile nothing on screen changes.
C22_VerifyFailureResetsShownScreen ==
  [][VerifyFailed =>
       /\ appStore' = appStore
       /\ authState' = authState
       /\ loading =>
            /\ otp' = EmptyOtp /\ error' /\ ~loading'
            /\ route' = "verify" /\ authState'.pendingVerification
       /\ ~loading => UNCHANGED <<otp, error, loading, route, form>>]_vars

C22_Witness ==
  /\ lastVerify.result = "fail" /\ lastVerify.live
  /\ route = "verify" /\ authState.pendingVerification
  /\ otp = EmptyOtp /\ error /\ ~loading
  /\ appStore = EmptyStore
  /\ entry.text = SixDigits

\* C23: when the verify call succeeds the returned token and user are
\* stored, and then with a callback URL captured the browser navigates to
\* that URL with the token parameter added and no success page is shown,
\* and without one the success page is shown; no error is shown.
C23_VerifySuccessOutcome ==
  [][VerifySucceeded =>
       /\ appStore' = [token |-> lastVerify'.token,
                       user |-> UserOf(lastVerify'.token)]
       /\ IF callbackUrl # <<>>
          THEN /\ nav' = "away" /\ route' # "success"
               /\ UrlParts(href').page = UrlParts(callbackUrl).page
               /\ UrlToken(UrlParts(href').search) = lastVerify'.token
          ELSE nav' = "loginApp" /\ route' = "success"
       /\ ~error']_vars

\* A step in which handleResend was called.
ResendAsked == resends'.asked = resends.asked + 1

\* C24: resend is allowed only once the countdown is at zero; called
\* before, it sends no request and changes nothing; called when allowed, it
\* sends one request, disallows resend and restarts the countdown from its
\* full window, each time.
C24_ResendCooldown ==
  [][/\ canResend => resendTimer = 0
     /\ (canResend' /\ ~canResend) => (resendTimer = 0 /\ resendTimer' = 0)
     /\ (ResendAsked /\ ~canResend) =>
          /\ resends'.sent = resends.sent
          /\ UNCHANGED <<otpVars, route, authState, appStore, form, submitting,
                         resendTimer, canResend, resending, urlVars>>
     /\ (ResendAsked /\ canResend) =>
          /\ resends'.sent = resends.sent + 1
          /\ resending = "none" /\ resending' = "live"
          /\ ~canResend'
          /\ resendTimer' = ResendWindow]_vars

C24_Witness ==
  /\ resends = [asked |-> 3, sent |-> 2]
  /\ resendTimer = 0 /\ canResend
  /\ resending = "none"

\* A step of handleResend: the call, or the end of its request.
ResendStep == ResendAsked \/ (resending # "none" /\ resending' = "none")

\* C25: resend, whether its request succeeds or fails, leaves the six
\* digit slots, the pending e-mail and the captured callback URL unchanged.
C25_ResendFrame ==
  [][ResendStep => UNCHANGED <<otp, authState, callbackUrl>>]_vars

C25_Witness ==
  /\ resends.sent = 1 /\ resending = "none" /\ error
  /\ otp[0] = "1" /\ otp[1] = "1"
  /\ authState.email = "a@x"

\* C26: "Change email" on the code-entry screen returns to the e-mail form
\* and discards the digits entered, the pending e-mail and the pending flag.
C26_ChangeEmailDiscards ==
  [][(authState.pendingVerification /\ ~authState'.pendingVerification) =>
       /\ route' = "login"
       /\ otp' = EmptyOtp
       /\ authState'.email = Null]_vars

\* A step in which a login or register call ended in failure.
SubmitFailed ==
  /\ Len(submitLog') = Len(submitLog) + 1
  /\ ~submitLog'[Len(submitLog')].ok

\* The code-entry screen is shown only with the pending flag set, for an
\* e-mail whose login or register call succeeded.
CodeEntryEarned ==
  route = "verify" =>
    /\ authState.pendingVerification
    /\ authState.email \in SucceededEmails(submitLog)

\* C27 as stated: the code-entry screen is shown only after a successful
\* login or register call (/verify leading to /login otherwise), and a
\* failed call leaves the e-mail form shown with an error and the pending
\* flag false.
C27_CodeEntryOnlyAfterSuccess ==
  [][/\ CodeEntryEarned'
     /\ SubmitFailed =>
          /\ route' \in {"login", "register"}
          /\ form'.error
          /\ ~authState'.pendingVerification]_vars

\* C27 amended: the code-entry screen is shown only with the pending flag
\* set, for an e-mail whose call succeeded; a failed call changes neither
\* the route nor the flag nor the pending e-mail, and shows its error on
\* the form that sent it when that form is still shown.
C27_FailureKeepsEntryState ==
  [][/\ CodeEntryEarned'
     /\ SubmitFailed =>
          /\ UNCHANGED <<route, authState>>
          /\ submitting.live =>
               /\ route' \in {"login", "register"}
               /\ form'.error /\ ~form'.loading]_vars

C27_Witness ==
  /\ Len(submitLog) = 2 /\ submitLog[1].ok /\ ~submitLog[2].ok
  /\ route = "login" /\ form.error
  /\ authState.pendingVerification
  /\ authState.email = submitLog[1].email
  /\ submitLog[2].email # submitLog[1].email

\* The provider's startup has ended after a validate request that came to o.
ProviderEnded(o) == provider.pc = "done" /\ provider.outcome = o

\* C28: a transport or parse failure while the provider validates the
\* stored token at startup leaves that token in its state and in the store.
C28_ProviderKeepsTokenOnError ==
  (ProviderEnded("error") /\ provider.from = "store") =>
    /\ provider.token = provider.validating
    /\ storeToken = provider.validating

\* C29: a token the server reports invalid during the provider's startup,
\* taken from the URL or from the store, is removed from its state and
\* from the store.
C29_ProviderDropsInvalidToken ==
  ProviderEnded("invalid") =>
    /\ provider.token = Null
    /\ storeToken = Null

\* C30: the provider's startup on a URL that carries a token adopts and
\* stores that token and removes only that parameter from the visible URL,
\* the path and every other parameter kept.
C30_ProviderStripsOnlyToken ==
  [][(provider.pc = "start" /\ provider'.pc # "start" /\ UrlToken(search) # Null) =>
       /\ provider'.token = UrlToken(search)
       /\ storeToken' = UrlToken(search)
       /\ page' = page
       /\ search' = WithoutTokenParam(search)]_vars

\* C31: every getAuth call returns the one instance, constructed once
\* from the first call's config; the config of a later call changes
\* nothing.
C31_GetAuthSingleton ==
  [][singleton'.asked = singleton.asked + 1 =>
       /\ singleton'.last = singleton'.instance
       /\ singleton'.built = 1
       /\ singleton.asked > 0 =>
            /\ singleton'.instance = singleton.instance
            /\ singleton'.last = singleton.last
            /\ singleton'.config = singleton.config]_vars

C31_Witness ==
  /\ singleton.asked = MaxGetAuth /\ singleton.built = 1
  /\ singleton.last = singleton.instance
  /\ singleton.arg # singleton.config

\* C32: a cached user implies a token, in every state, also when logout()
\* overlaps a validating call whose response arrives after it.
C32_UserImpliesToken == user # Null => token # Null

\* C33: a validate response that arrives when the token is no longer the
\* one it was requested for (setToken ran meanwhile) changes neither the
\* token nor the cached user nor the store.
C33_ResponseForItsToken ==
  [][\A c \in Slots :
       (/\ calls[c].pc = "wait" /\ calls'[c].pc = "done"
        /\ token # Null /\ token # calls[c].reqToken)
       => /\ token' = token /\ user' = user
          /\ storeToken' = storeToken /\ storeUser' = storeUser]_vars

\* C34: over a working store in one tab, whenever no operation is in
\* flight after init(), each store slot holds what memory holds.
C34_StoreMirrorsMemory ==
  (initialized /\ InFlight = {} /\ storage = "ok")
    => storeToken = token /\ storeUser = user

\* C35: a protect call for a resource returns a user only if hasPermission,
\* given the same validation result, returns true.
C35_ProtectAgreesWithHasPermission ==
  \A c \in Slots :
    (/\ calls[c].op = "protect" /\ calls[c].pc = "done"
     /\ calls[c].res # Null /\ calls[c].result.kind = "user")
    => HasPermissionTail(config, calls[c].got).result.kind = "true"

\* C36: a verify request that succeeds after "Change email" was pressed
\* (the pending flag is down) writes no token or user and navigates
\* nowhere.
C36_LateSuccessAfterChangeEmail ==
  [][(VerifySucceeded /\ ~authState.pendingVerification)
       => appStore' = appStore /\ nav' = nav /\ route' = route]_vars

\* C37: on the code-entry screen at most one verify request is in flight.
C37_OneVerifyInFlight == ~(verifying # <<>> /\ overlap # <<>>)

\* C38: resend allowed implies a countdown at zero, in every state; the
\* countdown stays within 0..60 and changes only by a decrement of one or
\* by the reset to 60 of a resend that is sent.
C38_CountdownWithinWindow ==
  [][/\ canResend => resendTimer = 0
     /\ canResend' => resendTimer' = 0
     /\ resendTimer \in 0..ResendWindow
     /\ resendTimer' \in 0..ResendWindow
     /\ resendTimer' # resendTimer =>
          \/ resendTimer' = resendTimer - 1
          \/ /\ resendTimer' = ResendWindow
             /\ resends'.sent = resends.sent + 1]_vars

C38_Witness ==
  /\ resends = [asked |-> 1, sent |-> 1]
  /\ canResend /\ resendTimer = 0

\* C39: whenever the provider's startup effect has ended, by returning
\* or by rejecting, loading is false.
C39_ProviderLoadingEnds ==
  provider.pc \in {"done", "failed"} => ~provider.loading


====
